---- MODULE Spec2Model ----
(***************************************************************************)
(* A model of the dispatch and worker subsystem of cue: the atomic         *)
(* configuration registry (config.go), the logger's dispatch path and the  *)
(* registry operations (logger.go), and the synchronous and asynchronous   *)
(* workers with their retry, degradation and termination logic            *)
(* (worker.go).  Every goroutine of the program is a thread of the model;  *)
(* every step of the model is one shared-memory operation of the code (a  *)
(* lock, a channel operation, an atomic load or store, a call into a       *)
(* collector) together with the thread-local computation that follows it.  *)
(***************************************************************************)
EXTENDS Integers, Sequences, FiniteSets, TLC

(***************************************************************************)
(* Bounds of the model.                                                    *)
(***************************************************************************)
MaxCalls == 2
MaxBuf == 1
MaxFails == 4
MaxDrops == 1
MaxCloses == 1
MaxGen == 1

Callers == {"a"}
Collectors == {"c1", "c2"}

(***************************************************************************)
(* Severity levels: lower value = more severe, OFF excludes everything.    *)
(***************************************************************************)
OFF == 0
FATAL == 1
ERROR == 2
WARN == 3
INFO == 4
DEBUG == 5

Thresholds == {OFF, ERROR, INFO, DEBUG}
LogLevels == {ERROR, DEBUG}

\* worker.go: number of Collect retries before failing an event.
sendRetries == 2

(***************************************************************************)
(* Errors.  A collector error carries a tag that makes successive errors   *)
(* distinguishable; errDrops is the package-level error of worker.go.      *)
(***************************************************************************)
NilErr == <<"nil", 0>>
errDrops == <<"drops", 0>>
CollectorErr(n) == <<"collector", n>>

(***************************************************************************)
(* Events.  "user" events come from callers of the logging methods; the    *)
(* others are the events cue generates itself: the ERROR "entered a        *)
(* degraded state" and WARN "recovered" notifications, the FATAL           *)
(* "collector panic" report, and the synthetic ERROR event the recovery    *)
(* loop sends to the degraded collector itself.                            *)
(***************************************************************************)
NoWorker == <<"-", 0>>
NoEvent ==
    [kind |-> "none", level |-> OFF, src |-> NoWorker, n |-> 0, err |-> NilErr, drops |-> 0]

newEvent(kind, level, src, n, err) ==
    [kind |-> kind, level |-> level, src |-> src, n |-> n, err |-> err, drops |-> 0]

UserEvent(a, n, level) == newEvent("user", level, <<a, 0>>, n, NilErr)
DegradedEvent(w, err, drops) == newEvent("degraded", ERROR, w, drops, err)
RecoveredEvent(w, drops) == newEvent("recovered", WARN, w, drops, NilErr)
PanicEvent(w, n) == newEvent("panic", FATAL, w, n, NilErr)
\* The synthetic event carries the fields "attempts" and "drops".
SyntheticEvent(w, err, drops, attempt) ==
    [newEvent("synthetic", ERROR, w, attempt, err) EXCEPT !.drops = drops]

(***************************************************************************)
(* config.go                                                               *)
(***************************************************************************)
EmptyRegistry == [c \in {} |-> 0]

entry(threshold, degraded, worker) ==
    [threshold |-> threshold, degraded |-> degraded, worker |-> worker]

SetMax(S) == CHOOSE x \in S : \A y \in S : y <= x

\* config.updateThreshold: the maximum threshold of the non-degraded entries.
\* (updateThresholdMut: a faulty variant that counts degraded entries too.)
updateThresholdMut(reg) ==
    SetMax({OFF} \cup {reg[c].threshold : c \in DOMAIN reg})
updateThreshold(reg) ==
    SetMax({OFF} \cup {reg[c].threshold : c \in {x \in DOMAIN reg : ~reg[x].degraded}})

config(frames, errorFrames, reg) ==
    [threshold |-> updateThreshold(reg), frames |-> frames,
     errorFrames |-> errorFrames, registry |-> reg]

newConfig == [threshold |-> OFF, frames |-> 1, errorFrames |-> 1, registry |-> EmptyRegistry]

RegWith(reg, c, e) == [x \in DOMAIN reg \cup {c} |-> IF x = c THEN e ELSE reg[x]]
RegWithout(reg, c) == [x \in DOMAIN reg \ {c} |-> reg[x]]


\* logger.dispatchEvent: the test applied to each entry of the snapshot.
\* (MatchesMut: a faulty variant that excludes the threshold level itself.)
MatchesMut(e, event) == e.threshold > event.level /\ ~e.degraded
Matches(e, event) == e.threshold >= event.level /\ ~e.degraded

(***************************************************************************)
(* State.                                                                  *)
(*   cfg        the published configuration snapshot (atomicConfig.cfg)    *)
(*   mu         the holder of the configuration lock (atomicConfig.mu)     *)
(*   sending    the number of dispatches in progress (logger.go)           *)
(*   wk         the workers ever created, by <<collector, generation>>     *)
(*   th         the goroutines: position and local variables of each       *)
(*   coll       the collectors: whether Collect blocks, the outcomes of    *)
(*              its next calls, the number of Close calls received, the    *)
(*              history of its Collect calls                               *)
(*   gen        the number of workers created so far for each collector    *)
(*   closes     the calls of Close made so far: result channel, return     *)
(*   crashed    an unrecovered panic has ended the process                 *)
(***************************************************************************)
VARIABLES cfg, mu, sending, wk, th, coll, gen, closes, crashed

vars == <<cfg, mu, sending, wk, th, coll, gen, closes, crashed>>

NoThread == <<"-", NoWorker, 0>>

CallerId(a) == <<"caller", <<a, 0>>, 0>>
WorkerThread(w) == <<"worker", w, 0>>
NoteId(kind, w, n) == <<kind, w, n>>
CloseId(k) == <<"close", NoWorker, k>>
TermId(w, k) == <<"term", w, k>>

Thread(pc, ev) ==
    [pc |-> pc, ev |-> ev, todo |-> {}, w |-> NoWorker, att |-> 0, err |-> NilErr,
     d |-> 0, ratt |-> 0, ret |-> "", flush |-> FALSE, n |-> 0, lim |-> 0,
     audit |-> FALSE, log |-> <<>>]

\* A goroutine of the program that calls the logging methods, `calls` times
\* at most.
Caller(calls) == [Thread("ready", NoEvent) EXCEPT !.lim = calls]

\* A caller whose calls are recorded (history, for the properties only): each
\* with its event, the registry published when the call was made (reg) and
\* the registry that dispatchEvent loaded (snap).
AuditedCaller(calls) == [Caller(calls) EXCEPT !.audit = TRUE]

ThSpawn(base, id, r) == [x \in DOMAIN base \cup {id} |-> IF x = id THEN r ELSE base[x]]
ThDel(base, t) == [x \in DOMAIN base \ {t} |-> base[x]]

\* newSyncWorker / newAsyncWorker
newWorker(c, bufsize) ==
    [kind |-> IF bufsize = 0 THEN "sync" ELSE "async", bufsize |-> bufsize,
     queue |-> <<>>, closed |-> FALSE, qnil |-> FALSE,
     term |-> <<>>, termClosed |-> FALSE, finished |-> FALSE,
     drops |-> 0, lastdrops |-> 0, terminated |-> FALSE, wmu |-> NoThread,
     accepted |-> {}, dropped |-> {}]

\* A collector as the tests build them (blockingCollector, failingCollector,
\* panickingCollector around a capturingCollector): Collect blocks until
\* Unblock, then its calls return an error or panic as the script says, and
\* return nil once the script is used up.
newCollector(blocked, script) ==
    [blocked |-> blocked, script |-> script, closes |-> 0, hist |-> <<>>]

Outcome(c) == IF c.script = <<>> THEN "ok" ELSE Head(c.script)

CollectorOf(w) == w[1]

\* The Collect calls in progress on collector c.
Busy(c) ==
    Cardinality({t \in DOMAIN th : th[t].pc \in {"incall", "rincall"} /\ CollectorOf(th[t].w) = c})

Record(c, ev, res) ==
    [coll EXCEPT ![c].hist = Append(@, [ev |-> ev, res |-> res,
                                        err |-> IF res = "err"
                                                THEN CollectorErr(Len(coll[c].script))
                                                ELSE NilErr]),
                 ![c].script = IF @ = <<>> THEN @ ELSE Tail(@)]

(***************************************************************************)
(* The logging call: logger.send and logger.dispatchEvent.                 *)
(***************************************************************************)
\* An unrecovered panic ends the process: every goroutine stops, and only
\* the panicking one is kept, at the place of its panic.
Exit(t, pc, w) == [x \in {t} |-> [th[t] EXCEPT !.pc = pc, !.w = w]]

\* logger.send: the fast rejection against the snapshot's global threshold.
FastReject(level) == level > cfg.threshold

\* A caller invokes a logging method at the given level.
LogCall(a, level) ==
    LET t == CallerId(a) IN
    /\ ~crashed
    /\ th[t].pc = "ready"
    /\ th[t].n < th[t].lim
    /\ th' = [th EXCEPT ![t].n = @ + 1,
                        ![t].pc = IF FastReject(level) THEN "ready" ELSE "inc",
                        ![t].ev = IF FastReject(level) THEN NoEvent
                                  ELSE UserEvent(a, th[t].n + 1, level),
                        ![t].log = IF th[t].audit
                                   THEN Append(@, [ev |-> UserEvent(a, th[t].n + 1, level),
                                                   reg |-> cfg.registry,
                                                   snap |-> cfg.registry])
                                   ELSE @]
    /\ UNCHANGED <<cfg, mu, sending, wk, coll, gen, closes, crashed>>

\* The logging call of one of cue's own goroutines (Errorf, Warnf,
\* ReportRecovery on the internal logger): the same fast rejection.
NoteCheck(t) ==
    /\ th[t].pc = "check"
    /\ th' = IF FastReject(th[t].ev.level) THEN ThDel(th, t)
             ELSE [th EXCEPT ![t].pc = "inc"]
    /\ UNCHANGED <<cfg, mu, sending, wk, coll, gen, closes, crashed>>

\* dispatchEvent: atomic.AddInt32(&sending, 1)
\* (DispatchIncMut: a faulty variant that does not count the dispatch.)
DispatchIncMut(t) ==
    /\ th[t].pc = "inc"
    /\ th' = [th EXCEPT ![t].pc = "load"]
    /\ UNCHANGED <<cfg, mu, sending, wk, coll, gen, closes, crashed>>

DispatchInc(t) ==
    /\ th[t].pc = "inc"
    /\ sending' = sending + 1
    /\ th' = [th EXCEPT ![t].pc = "load"]
    /\ UNCHANGED <<cfg, mu, wk, coll, gen, closes, crashed>>

\* dispatchEvent: cfg.get().registry, and the entries its loop will send to.
DispatchTargets(reg, event) ==
    {reg[c].worker : c \in {x \in DOMAIN reg : Matches(reg[x], event)}}

DispatchLoad(t) ==
    /\ th[t].pc = "load"
    /\ th' = [th EXCEPT ![t].pc = "iter",
                        ![t].todo = DispatchTargets(cfg.registry, th[t].ev),
                        ![t].log = IF th[t].audit
                                   THEN [@ EXCEPT ![Len(@)].snap = cfg.registry]
                                   ELSE @]
    /\ UNCHANGED <<cfg, mu, sending, wk, coll, gen, closes, crashed>>

\* asyncWorker.Send: the non-blocking enqueue; a full queue drops the event.
\* (AsyncSendMut: a faulty variant that enqueues whatever the queue holds.)
AsyncSendMut(w, ev) ==
    [w EXCEPT !.queue = Append(@, ev), !.accepted = @ \cup {ev}]
AsyncSend(w, ev) ==
    IF Len(w.queue) < w.bufsize
    THEN [w EXCEPT !.queue = Append(@, ev), !.accepted = @ \cup {ev}]
    ELSE [w EXCEPT !.drops = @ + 1, !.dropped = @ \cup {ev}]

\* dispatchEvent: the loop reaches the next entry and calls its worker's Send.
\* A send on a closed channel panics; the panic is not recovered.  After
\* cleanup has set w.queue to nil (unsynchronised), Send may read either the
\* closed channel or nil, and a send on a nil channel is never ready.
WorkerSend(t, w) ==
    /\ th[t].pc = "iter"
    /\ w \in th[t].todo
    /\ IF wk[w].kind = "sync"
       THEN /\ th' = [th EXCEPT ![t].pc = "slock", ![t].w = w, ![t].todo = @ \ {w}]
            /\ UNCHANGED <<wk, crashed>>
       ELSE \/ /\ ~wk[w].closed
               /\ wk' = [wk EXCEPT ![w] = AsyncSend(wk[w], th[t].ev)]
               /\ th' = [th EXCEPT ![t].todo = @ \ {w}]
               /\ UNCHANGED crashed
            \/ /\ wk[w].closed
               /\ crashed' = TRUE
               /\ th' = Exit(t, "panic_send", w)
               /\ UNCHANGED wk
            \/ /\ wk[w].qnil
               /\ wk' = [wk EXCEPT ![w].drops = @ + 1, ![w].dropped = @ \cup {th[t].ev}]
               /\ th' = [th EXCEPT ![t].todo = @ \ {w}]
               /\ UNCHANGED crashed
    /\ UNCHANGED <<cfg, mu, sending, coll, gen, closes>>

DispatchNext(t) == \E w \in th[t].todo : WorkerSend(t, w)

\* dispatchEvent: the deferred atomic.AddInt32(&sending, -1), and the return.
DispatchDone(t) ==
    /\ th[t].pc = "iter"
    /\ th[t].todo = {}
    /\ sending' = sending - 1
    /\ th' = IF t[1] = "caller"
             THEN [th EXCEPT ![t].pc = "ready", ![t].ev = NoEvent]
             ELSE ThDel(th, t)
    /\ UNCHANGED <<cfg, mu, wk, coll, gen, closes, crashed>>


(***************************************************************************)
(* The synchronous worker: Send.                                           *)
(***************************************************************************)
\* A Send that leaves the delivery to a goroutine of its own.
SyncSendDetached(t) ==
    LET w == th[t].w
        u == NoteId("detached", w, th[t].n) IN
    /\ th[t].pc = "slock"
    /\ wk[w].wmu = NoThread
    /\ IF wk[w].terminated
       THEN /\ th' = [th EXCEPT ![t].pc = "iter", ![t].w = NoWorker]
            /\ UNCHANGED wk
       ELSE /\ wk' = [wk EXCEPT ![w].wmu = u]
            /\ th' = ThSpawn([th EXCEPT ![t].pc = "iter", ![t].w = NoWorker], u,
                             [Thread("call", th[t].ev) EXCEPT !.w = w])
    /\ UNCHANGED <<cfg, mu, sending, coll, gen, closes, crashed>>

\* A Send that does not take w.mu.
SyncSendUnlocked(t) ==
    LET w == th[t].w IN
    /\ th[t].pc = "slock"
    /\ IF wk[w].terminated
       THEN /\ th' = [th EXCEPT ![t].pc = "iter", ![t].w = NoWorker]
            /\ UNCHANGED wk
       ELSE /\ wk' = [wk EXCEPT ![w].wmu = t]
            /\ th' = [th EXCEPT ![t].pc = "call", ![t].att = 0, ![t].err = NilErr,
                                ![t].ret = "iter"]
    /\ UNCHANGED <<cfg, mu, sending, coll, gen, closes, crashed>>

\* A Send that does not look at the terminated flag.
SyncSendMut(t) ==
    LET w == th[t].w IN
    /\ th[t].pc = "slock"
    /\ wk[w].wmu = NoThread
    /\ wk' = [wk EXCEPT ![w].wmu = t]
    /\ th' = [th EXCEPT ![t].pc = "call", ![t].att = 0, ![t].err = NilErr,
                        ![t].ret = "iter"]
    /\ UNCHANGED <<cfg, mu, sending, coll, gen, closes, crashed>>

\* syncWorker.Send: w.mu.Lock(); a terminated worker ignores the event.
SyncSend(t) ==
    LET w == th[t].w IN
    /\ th[t].pc = "slock"
    /\ wk[w].wmu = NoThread
    /\ IF wk[w].terminated
       THEN /\ th' = [th EXCEPT ![t].pc = "iter", ![t].w = NoWorker]
            /\ UNCHANGED wk
       ELSE /\ wk' = [wk EXCEPT ![w].wmu = t]
            /\ th' = [th EXCEPT ![t].pc = "call", ![t].att = 0, ![t].err = NilErr,
                                ![t].ret = "iter"]
    /\ UNCHANGED <<cfg, mu, sending, coll, gen, closes, crashed>>

(***************************************************************************)
(* Delivery, shared by both workers: sendEvent, sendWithRetries,           *)
(* handleDegradation, ensureErrorSent, recoverCollector.  The thread that  *)
(* runs it is the logging goroutine (synchronous worker, holding w.mu) or  *)
(* the worker's own goroutine (asynchronous worker).                       *)
(***************************************************************************)
\* The thread's state when sendEvent returns to where it was called from:
\* the dispatch loop, the run loop, the flush loop of cleanup, or (after the
\* degradation started by handleDrops) the sendEvent of the dequeued event.
Resume(r) ==
    CASE r.ret = "iter" -> [r EXCEPT !.pc = "iter", !.w = NoWorker, !.att = 0, !.err = NilErr,
                                     !.d = 0, !.ratt = 0, !.ret = ""]
      [] r.ret = "send" /\ r.ev # NoEvent ->
             [r EXCEPT !.pc = "call", !.att = 0, !.err = NilErr, !.d = 0, !.ratt = 0,
                       !.ret = "idle"]
      [] r.ret = "cleanup" -> [r EXCEPT !.pc = "cleanup", !.ev = NoEvent, !.att = 0,
                                        !.err = NilErr, !.d = 0, !.ratt = 0, !.ret = ""]
      [] OTHER -> [r EXCEPT !.pc = "idle", !.ev = NoEvent, !.att = 0, !.err = NilErr,
                            !.d = 0, !.ratt = 0, !.ret = ""]

\* The worker's state when sendEvent returns: the synchronous worker's Send
\* unlocks w.mu; the asynchronous worker has recorded the drop count it reported.
Released(w) == [w EXCEPT !.wmu = NoThread]
Reported(w, d) == IF w.kind = "sync" THEN Released(w) ELSE [w EXCEPT !.lastdrops = d]

RecoverId(w) == NoteId("recover", w, Len(coll[CollectorOf(w)].script))

\* sendWithRetries: c.Collect(event) is called.
Collect(t) ==
    /\ th[t].pc = "call"
    /\ th' = [th EXCEPT ![t].pc = "incall"]
    /\ UNCHANGED <<cfg, mu, sending, wk, coll, gen, closes, crashed>>

\* sendWithRetries: the retry loop's bound.
\* (ExhaustedMut: a faulty variant that allows one more attempt.)
ExhaustedMut(attempt) == attempt > sendRetries + 1
Exhausted(attempt) == attempt > sendRetries

\* sendWithRetries: the error it returns when every attempt failed.
\* (FirstErrorMut: a faulty variant that returns the last error.)
FirstErrorMut(collectorErr, err) == err
FirstError(collectorErr, err) == IF collectorErr = NilErr THEN err ELSE collectorErr

\* sendWithRetries: c.Collect(event) returns nil.
CollectOk(t) ==
    LET w == th[t].w
        c == CollectorOf(w) IN
    /\ th[t].pc = "incall"
    /\ ~coll[c].blocked
    /\ Outcome(coll[c]) = "ok"
    /\ coll' = Record(c, th[t].ev, "ok")
    /\ th' = [th EXCEPT ![t] = Resume(th[t])]
    /\ wk' = [wk EXCEPT ![w] = Released(wk[w])]
    /\ UNCHANGED <<cfg, mu, sending, gen, closes, crashed>>

\* sendWithRetries: c.Collect(event) returns an error: the next attempt, or
\* the return of the first error to sendEvent, which counts a drop and
\* calls handleDegradation.
\* (CollectErrMut: a faulty variant whose sendEvent does not count the event
\* that exhausted its retries.)
CollectErrMut(t) ==
    LET w == th[t].w
        c == CollectorOf(w)
        e == FirstError(th[t].err, CollectorErr(Len(coll[c].script)))
        drops == wk[w].drops + 1 IN
    /\ th[t].pc = "incall"
    /\ ~coll[c].blocked
    /\ Outcome(coll[c]) = "err"
    /\ coll' = Record(c, th[t].ev, "err")
    /\ IF Exhausted(th[t].att + 1)
       THEN /\ UNCHANGED wk
            /\ th' = [th EXCEPT ![t].pc = "deg_on", ![t].err = e, ![t].d = drops,
                                ![t].att = @ + 1]
       ELSE /\ th' = [th EXCEPT ![t].pc = "call", ![t].err = e, ![t].att = @ + 1]
            /\ UNCHANGED wk
    /\ UNCHANGED <<cfg, mu, sending, gen, closes, crashed>>

CollectErr(t) ==
    LET w == th[t].w
        c == CollectorOf(w)
        e == FirstError(th[t].err, CollectorErr(Len(coll[c].script)))
        drops == wk[w].drops + 1 IN
    /\ th[t].pc = "incall"
    /\ ~coll[c].blocked
    /\ Outcome(coll[c]) = "err"
    /\ coll' = Record(c, th[t].ev, "err")
    /\ IF Exhausted(th[t].att + 1)
       THEN /\ wk' = [wk EXCEPT ![w].drops = drops]
            /\ th' = [th EXCEPT ![t].pc = "deg_on", ![t].err = e, ![t].d = drops,
                                ![t].att = @ + 1]
       ELSE /\ th' = [th EXCEPT ![t].pc = "call", ![t].err = e, ![t].att = @ + 1]
            /\ UNCHANGED wk
    /\ UNCHANGED <<cfg, mu, sending, gen, closes, crashed>>

\* A sendWithRetries that takes a panic of Collect for a failed attempt.
CollectPanicMut(t) ==
    LET w == th[t].w
        c == CollectorOf(w) IN
    /\ th[t].pc = "incall"
    /\ ~coll[c].blocked
    /\ Outcome(coll[c]) = "panic"
    /\ coll' = Record(c, th[t].ev, "panic")
    /\ th' = [th EXCEPT ![t].pc = "call", ![t].att = @ + 1]
    /\ UNCHANGED <<cfg, mu, sending, wk, gen, closes, crashed>>

\* sendWithRetries: c.Collect(event) panics; the deferred recoverCollector
\* starts the goroutine that disposes the collector, and sendWithRetries
\* returns nil.
CollectPanic(t) ==
    LET w == th[t].w
        c == CollectorOf(w) IN
    /\ th[t].pc = "incall"
    /\ ~coll[c].blocked
    /\ Outcome(coll[c]) = "panic"
    /\ coll' = Record(c, th[t].ev, "panic")
    /\ th' = ThSpawn([th EXCEPT ![t] = Resume(th[t])], RecoverId(w),
                     [Thread("d_lock", PanicEvent(w, Len(coll[CollectorOf(w)].script))) EXCEPT !.w = w])
    /\ wk' = [wk EXCEPT ![w] = Released(wk[w])]
    /\ UNCHANGED <<cfg, mu, sending, gen, closes, crashed>>

\* logger.setDegraded, under the configuration lock.
setDegraded(c, degraded) ==
    IF c \in DOMAIN cfg.registry
    THEN config(cfg.frames, cfg.errorFrames,
                [cfg.registry EXCEPT ![c].degraded = degraded])
    ELSE cfg

\* handleDegradation: setDegraded(c, true), which needs the configuration
\* lock, and the goroutine that logs the ERROR notification.
DegradeOn(t) ==
    LET w == th[t].w
        c == CollectorOf(w) IN
    /\ th[t].pc = "deg_on"
    /\ th[t].d <= MaxDrops
    /\ mu = NoThread
    /\ cfg' = setDegraded(c, TRUE)
    /\ th' = ThSpawn([th EXCEPT ![t].pc = "rcall", ![t].ratt = 0],
                     NoteId("degraded", w, th[t].d),
                     Thread("check", DegradedEvent(w, th[t].err, th[t].d)))
    /\ UNCHANGED <<mu, sending, wk, coll, gen, closes, crashed>>

\* ensureErrorSent: attempt++, the backoff sleep, and the Collect call with
\* the synthetic event.
RecoveryCollect(t) ==
    /\ th[t].pc = "rcall"
    /\ th' = [th EXCEPT ![t].pc = "rincall", ![t].ratt = @ + 1]
    /\ UNCHANGED <<cfg, mu, sending, wk, coll, gen, closes, crashed>>

\* ensureErrorSent: Collect returns nil and the loop ends.
RecoveryOk(t) ==
    LET w == th[t].w
        c == CollectorOf(w) IN
    /\ th[t].pc = "rincall"
    /\ ~coll[c].blocked
    /\ Outcome(coll[c]) = "ok"
    /\ coll' = Record(c, SyntheticEvent(w, th[t].err, th[t].d, th[t].ratt), "ok")
    /\ th' = [th EXCEPT ![t].pc = "deg_off"]
    /\ UNCHANGED <<cfg, mu, sending, wk, gen, closes, crashed>>

\* A recovery loop that ends at the first failed attempt.
RecoveryErrMut(t) ==
    LET w == th[t].w
        c == CollectorOf(w) IN
    /\ th[t].pc = "rincall"
    /\ ~coll[c].blocked
    /\ Outcome(coll[c]) = "err"
    /\ coll' = Record(c, SyntheticEvent(w, th[t].err, th[t].d, th[t].ratt), "err")
    /\ th' = [th EXCEPT ![t].pc = "deg_off"]
    /\ UNCHANGED <<cfg, mu, sending, wk, gen, closes, crashed>>

\* ensureErrorSent: Collect returns an error and the loop goes on.
RecoveryErr(t) ==
    LET w == th[t].w
        c == CollectorOf(w) IN
    /\ th[t].pc = "rincall"
    /\ ~coll[c].blocked
    /\ Outcome(coll[c]) = "err"
    /\ coll' = Record(c, SyntheticEvent(w, th[t].err, th[t].d, th[t].ratt), "err")
    /\ th' = [th EXCEPT ![t].pc = "rcall"]
    /\ UNCHANGED <<cfg, mu, sending, wk, gen, closes, crashed>>

\* ensureErrorSent: Collect panics; handleDegradation's deferred
\* recoverCollector starts the disposing goroutine and handleDegradation
\* returns without clearing the degraded flag.
RecoveryPanic(t) ==
    LET w == th[t].w
        c == CollectorOf(w) IN
    /\ th[t].pc = "rincall"
    /\ ~coll[c].blocked
    /\ Outcome(coll[c]) = "panic"
    /\ coll' = Record(c, SyntheticEvent(w, th[t].err, th[t].d, th[t].ratt), "panic")
    /\ th' = ThSpawn([th EXCEPT ![t] = Resume(th[t])], RecoverId(w),
                     [Thread("d_lock", PanicEvent(w, Len(coll[CollectorOf(w)].script))) EXCEPT !.w = w])
    /\ wk' = [wk EXCEPT ![w] = Reported(wk[w], th[t].d)]
    /\ UNCHANGED <<cfg, mu, sending, gen, closes, crashed>>

\* handleDegradation: setDegraded(c, false), which needs the configuration
\* lock, the goroutine that logs the WARN notification, and the return.
DegradeOff(t) ==
    LET w == th[t].w
        c == CollectorOf(w) IN
    /\ th[t].pc = "deg_off"
    /\ mu = NoThread
    /\ cfg' = setDegraded(c, FALSE)
    /\ th' = ThSpawn([th EXCEPT ![t] = Resume(th[t])],
                     NoteId("recovered", w, th[t].d),
                     Thread("check", RecoveredEvent(w, th[t].d)))
    /\ wk' = [wk EXCEPT ![w] = Reported(wk[w], th[t].d)]
    /\ UNCHANGED <<mu, sending, coll, gen, closes, crashed>>


(***************************************************************************)
(* The asynchronous worker's goroutine: run, handleDrops, cleanup.         *)
(***************************************************************************)
\* A run loop that receives the event queued last.
RunReceiveMut(t) ==
    LET w == th[t].w
        q == wk[w].queue IN
    /\ th[t].pc = "idle"
    /\ \/ /\ q # <<>>
          /\ th' = [th EXCEPT ![t].pc = "hdrops", ![t].ev = q[Len(q)]]
          /\ wk' = [wk EXCEPT ![w].queue = SubSeq(q, 1, Len(q) - 1)]
       \/ /\ q = <<>>
          /\ wk[w].closed
          /\ th' = [th EXCEPT ![t].pc = "hdrops", ![t].ev = NoEvent]
          /\ UNCHANGED wk
    /\ UNCHANGED <<cfg, mu, sending, coll, gen, closes, crashed>>

\* run: the select receives from w.queue (a closed, empty queue yields nil).
RunReceive(t) ==
    LET w == th[t].w IN
    /\ th[t].pc = "idle"
    /\ \/ /\ wk[w].queue # <<>>
          /\ th' = [th EXCEPT ![t].pc = "hdrops", ![t].ev = Head(wk[w].queue)]
          /\ wk' = [wk EXCEPT ![w].queue = Tail(@)]
       \/ /\ wk[w].queue = <<>>
          /\ wk[w].closed
          /\ th' = [th EXCEPT ![t].pc = "hdrops", ![t].ev = NoEvent]
          /\ UNCHANGED wk
    /\ UNCHANGED <<cfg, mu, sending, coll, gen, closes, crashed>>

\* run: the select receives the flush flag from w.terminate.
RunTerminate(t) ==
    LET w == th[t].w IN
    /\ th[t].pc = "idle"
    /\ wk[w].term # <<>>
    /\ th' = [th EXCEPT ![t].pc = "cleanup", ![t].flush = Head(wk[w].term)]
    /\ wk' = [wk EXCEPT ![w].term = Tail(@)]
    /\ UNCHANGED <<cfg, mu, sending, coll, gen, closes, crashed>>

\* handleDrops: the drop counter is compared with the count last reported.
\* (DropsPendingMut: a faulty variant that reports no drop.)
DropsPendingMut(w) == FALSE
DropsPending(w) == w.drops > w.lastdrops

HandleDrops(t) ==
    LET w == th[t].w IN
    /\ th[t].pc = "hdrops"
    /\ th' = IF DropsPending(wk[w])
             THEN [th EXCEPT ![t].pc = "deg_on", ![t].err = errDrops,
                             ![t].d = wk[w].drops, ![t].ret = "send"]
             ELSE IF th[t].ev = NoEvent
                  THEN [th EXCEPT ![t].pc = "idle"]
                  ELSE [th EXCEPT ![t].pc = "call", ![t].att = 0, ![t].err = NilErr,
                                  ![t].ret = "idle"]
    /\ UNCHANGED <<cfg, mu, sending, wk, coll, gen, closes, crashed>>

\* cleanup: with flush, the next queued event is sent.
CleanupFlush(t) ==
    LET w == th[t].w IN
    /\ th[t].pc = "cleanup"
    /\ th[t].flush
    /\ wk[w].queue # <<>>
    /\ th' = [th EXCEPT ![t].pc = "call", ![t].ev = Head(wk[w].queue), ![t].att = 0,
                        ![t].err = NilErr, ![t].ret = "cleanup"]
    /\ wk' = [wk EXCEPT ![w].queue = Tail(@)]
    /\ UNCHANGED <<cfg, mu, sending, coll, gen, closes, crashed>>

\* closeCollector: the collector's Close is called.
closeCollector(c) == [coll EXCEPT ![c].closes = @ + 1]

\* cleanup: the queue is drained (or flush is false): the collector is closed,
\* w.queue is set to nil, and run closes w.finished and returns.
\* (DrainedMut: a faulty variant of cleanup that does not flush the queue.)
DrainedMut(w, flush) == TRUE
Drained(w, flush) == ~flush \/ (w.queue = <<>> /\ w.closed)

CleanupDone(t) ==
    LET w == th[t].w IN
    /\ th[t].pc = "cleanup"
    /\ Drained(wk[w], th[t].flush)
    /\ coll' = closeCollector(CollectorOf(w))
    /\ wk' = [wk EXCEPT ![w].qnil = TRUE, ![w].finished = TRUE]
    /\ th' = ThDel(th, t)
    /\ UNCHANGED <<cfg, mu, sending, gen, closes, crashed>>

(***************************************************************************)
(* Terminate, run by a goroutine of Close (flush = true) or by dispose     *)
(* (flush = false, holding the configuration lock).                        *)
(***************************************************************************)
\* What the terminating thread does once Terminate has returned: a goroutine
\* of terminateWorkers calls wg.Done and ends; dispose unlocks the
\* configuration lock and returns, the recovering goroutine going on to
\* report the panic.
AfterTerminate(t) ==
    CASE t[1] = "term" ->
             [x \in DOMAIN th \ {t} |->
                 IF x = CloseId(t[3]) THEN [th[x] EXCEPT !.n = @ - 1] ELSE th[x]]
      [] t[1] = "recover" -> [th EXCEPT ![t].pc = "check", ![t].w = NoWorker]
      [] OTHER -> ThDel(th, t)

MuAfterTerminate(t) == IF t[1] = "term" THEN mu ELSE NoThread

\* syncWorker.Terminate: under w.mu, the collector is closed and the worker
\* marked terminated.
SyncTerminate(t) ==
    LET w == th[t].w IN
    /\ th[t].pc = "t_start"
    /\ wk[w].kind = "sync"
    /\ wk[w].wmu = NoThread
    /\ coll' = closeCollector(CollectorOf(w))
    /\ wk' = [wk EXCEPT ![w].terminated = TRUE]
    /\ th' = AfterTerminate(t)
    /\ mu' = MuAfterTerminate(t)
    /\ UNCHANGED <<cfg, sending, gen, closes, crashed>>

\* asyncWorker.Terminate: close(w.queue).  Closing a closed or nil channel
\* panics.
AsyncTerminateClose(t) ==
    LET w == th[t].w IN
    /\ th[t].pc = "t_start"
    /\ wk[w].kind = "async"
    /\ IF wk[w].closed
       THEN /\ crashed' = TRUE
            /\ th' = Exit(t, "panic_close", w)
            /\ UNCHANGED wk
       ELSE /\ wk' = [wk EXCEPT ![w].closed = TRUE]
            /\ th' = [th EXCEPT ![t].pc = "t_flag"]
            /\ UNCHANGED crashed
    /\ UNCHANGED <<cfg, mu, sending, coll, gen, closes>>

\* asyncWorker.Terminate: w.terminate <- flush; close(w.terminate).
AsyncTerminateSignal(t) ==
    LET w == th[t].w IN
    /\ th[t].pc = "t_flag"
    /\ wk[w].term = <<>>
    /\ wk' = [wk EXCEPT ![w].term = <<th[t].flush>>, ![w].termClosed = TRUE]
    /\ th' = [th EXCEPT ![t].pc = "t_wait"]
    /\ UNCHANGED <<cfg, mu, sending, coll, gen, closes, crashed>>

\* asyncWorker.Terminate: <-w.finished.
AsyncTerminateWait(t) ==
    LET w == th[t].w IN
    /\ th[t].pc = "t_wait"
    /\ wk[w].finished
    /\ th' = AfterTerminate(t)
    /\ mu' = MuAfterTerminate(t)
    /\ UNCHANGED <<cfg, sending, wk, coll, gen, closes, crashed>>

(***************************************************************************)
(* dispose, called by the goroutine recoverCollector starts.               *)
(***************************************************************************)
\* dispose: under the configuration lock the entry is removed and the new
\* snapshot published; an unknown collector returns at once.
\* (DisposeMut: a faulty variant that terminates the worker and leaves its
\* entry in the registry.)
DisposeMut(t) ==
    LET c == CollectorOf(th[t].w) IN
    /\ th[t].pc = "d_lock"
    /\ mu = NoThread
    /\ IF c \in DOMAIN cfg.registry
       THEN /\ mu' = t
            /\ th' = [th EXCEPT ![t].pc = "t_start", ![t].w = cfg.registry[c].worker,
                                ![t].flush = FALSE]
            /\ UNCHANGED cfg
       ELSE /\ th' = AfterTerminate(t)
            /\ UNCHANGED <<cfg, mu>>
    /\ UNCHANGED <<sending, wk, coll, gen, closes, crashed>>

Dispose(t) ==
    LET c == CollectorOf(th[t].w) IN
    /\ th[t].pc = "d_lock"
    /\ mu = NoThread
    /\ IF c \in DOMAIN cfg.registry
       THEN /\ cfg' = config(cfg.frames, cfg.errorFrames, RegWithout(cfg.registry, c))
            /\ mu' = t
            /\ th' = [th EXCEPT ![t].pc = "t_start", ![t].w = cfg.registry[c].worker,
                                ![t].flush = FALSE]
       ELSE /\ th' = AfterTerminate(t)
            /\ UNCHANGED <<cfg, mu>>
    /\ UNCHANGED <<sending, wk, coll, gen, closes, crashed>>

(***************************************************************************)
(* Close(timeout), terminateAsync, terminateWorkers.                       *)
(***************************************************************************)
\* Close: the result channel is made and terminateAsync started.  The
\* program calls Close one call after the other, lim times at most.
CloseCallWithin(lim) ==
    /\ ~crashed
    /\ Len(closes) < lim
    /\ IF closes = <<>> THEN TRUE ELSE closes[Len(closes)].ret # "pending"
    /\ closes' = Append(closes, [ret |-> "pending", ch |-> "empty",
                                  acc |-> [w \in DOMAIN wk |-> wk[w].accepted],
                                  q |-> [w \in DOMAIN wk |-> wk[w].queue],
                                  reg |-> {}])
    /\ th' = ThSpawn(th, CloseId(Len(closes) + 1), Thread("c_lock", NoEvent))
    /\ UNCHANGED <<cfg, mu, sending, wk, coll, gen, crashed>>

CloseCall == CloseCallWithin(MaxCloses)


\* A terminateAsync that publishes a fresh configuration only when the
\* registry is not empty.
TerminateAsyncMut(t) ==
    /\ th[t].pc = "c_lock"
    /\ mu = NoThread
    /\ mu' = t
    /\ cfg' = IF DOMAIN cfg.registry = {} THEN cfg ELSE newConfig
    /\ th' = [th EXCEPT ![t].pc = "c_wait",
                        ![t].todo = {cfg.registry[c].worker : c \in DOMAIN cfg.registry}]
    /\ closes' = [closes EXCEPT ![t[3]].reg = {cfg.registry[c].worker : c \in DOMAIN cfg.registry}]
    /\ UNCHANGED <<sending, wk, coll, gen, crashed>>

\* terminateAsync: under the configuration lock the current snapshot is
\* taken and a fresh configuration published.
TerminateAsync(t) ==
    /\ th[t].pc = "c_lock"
    /\ mu = NoThread
    /\ mu' = t
    /\ cfg' = newConfig
    /\ th' = [th EXCEPT ![t].pc = "c_wait",
                        ![t].todo = {cfg.registry[c].worker : c \in DOMAIN cfg.registry}]
    /\ closes' = [closes EXCEPT ![t[3]].reg = {cfg.registry[c].worker : c \in DOMAIN cfg.registry}]
    /\ UNCHANGED <<sending, wk, coll, gen, crashed>>

\* terminateWorkers: the wait for the dispatches in progress.
\* (InFlightMut: a faulty variant that does not wait.)
InFlightMut(n) == FALSE
InFlight(n) == n # 0

\* terminateWorkers: once no dispatch is in progress, one goroutine per
\* worker calls Terminate(true).
TerminateWorkers(t) ==
    /\ th[t].pc = "c_wait"
    /\ ~InFlight(sending)
    /\ th' = [x \in DOMAIN th \cup {TermId(w, t[3]) : w \in th[t].todo} |->
                 IF x = t THEN [th[t] EXCEPT !.pc = "c_wg", !.n = Cardinality(th[t].todo)]
                 ELSE IF x \in DOMAIN th THEN th[x]
                 ELSE [Thread("t_start", NoEvent) EXCEPT !.w = x[2], !.flush = TRUE]]
    /\ UNCHANGED <<cfg, mu, sending, wk, coll, gen, closes, crashed>>

\* terminateWorkers: wg.Wait() returns; terminateAsync sends nil on the
\* result channel and unlocks the configuration lock.
TerminateAsyncDone(t) ==
    /\ th[t].pc = "c_wg"
    /\ th[t].n = 0
    /\ closes' = [closes EXCEPT ![t[3]].ch = "nil"]
    /\ mu' = NoThread
    /\ th' = ThDel(th, t)
    /\ UNCHANGED <<cfg, sending, wk, coll, gen, crashed>>

\* Close: the select receives the result.
CloseReturn ==
    /\ ~crashed
    /\ closes # <<>>
    /\ closes[Len(closes)].ret = "pending"
    /\ closes[Len(closes)].ch = "nil"
    /\ closes' = [closes EXCEPT ![Len(closes)].ret = "nil"]
    /\ UNCHANGED <<cfg, mu, sending, wk, th, coll, gen, crashed>>

\* Close: the select receives from time.After(timeout).
CloseTimeout ==
    /\ ~crashed
    /\ closes # <<>>
    /\ closes[Len(closes)].ret = "pending"
    /\ closes' = [closes EXCEPT ![Len(closes)].ret = "timeout"]
    /\ UNCHANGED <<cfg, mu, sending, wk, th, coll, gen, crashed>>

(***************************************************************************)
(* The registry operations of logger.go, each under the configuration     *)
(* lock from start to end.                                                 *)
(***************************************************************************)
\* collect (Collect: bufsize = 0, CollectAsync: bufsize > 0).
Register(c, threshold, bufsize) ==
    LET w == <<c, gen[c] + 1>> IN
    /\ ~crashed
    /\ mu = NoThread
    /\ gen[c] < MaxGen
    /\ c \notin DOMAIN cfg.registry
    /\ cfg' = config(cfg.frames, cfg.errorFrames,
                     RegWith(cfg.registry, c, entry(threshold, FALSE, w)))
    /\ gen' = [gen EXCEPT ![c] = @ + 1]
    /\ wk' = [x \in DOMAIN wk \cup {w} |-> IF x = w THEN newWorker(c, bufsize) ELSE wk[x]]
    /\ th' = IF bufsize = 0 THEN th
             ELSE ThSpawn(th, WorkerThread(w), [Thread("idle", NoEvent) EXCEPT !.w = w])
    /\ UNCHANGED <<mu, sending, coll, closes, crashed>>

\* SetLevel
SetLevel(c, threshold) ==
    /\ ~crashed
    /\ mu = NoThread
    /\ c \in DOMAIN cfg.registry
    /\ cfg.registry[c].threshold # threshold
    /\ cfg' = config(cfg.frames, cfg.errorFrames,
                     [cfg.registry EXCEPT ![c].threshold = threshold])
    /\ UNCHANGED <<mu, sending, wk, th, coll, gen, closes, crashed>>

\* The blocking collector of the tests is unblocked.
Unblock(c) ==
    /\ ~crashed
    /\ coll[c].blocked
    /\ coll' = [coll EXCEPT ![c].blocked = FALSE]
    /\ UNCHANGED <<cfg, mu, sending, wk, th, gen, closes, crashed>>

(***************************************************************************)
(* The specification.                                                      *)
(***************************************************************************)
\* The scripts of the collectors: up to MaxFails failures, a panic, or the
\* retries exhausted and then a panic in the recovery loop.
Fails(k) == [i \in 1..k |-> "err"]
Scripts ==
    {Fails(k) : k \in 0..MaxFails}
        \cup {<<"panic">>, <<"err", "panic">>, Fails(sendRetries + 1) \o <<"panic">>,
              <<"panic">> \o Fails(sendRetries + 1)}

Init ==
    /\ cfg = newConfig
    /\ mu = NoThread
    /\ sending = 0
    /\ wk = [w \in {} |-> 0]
    /\ th = [t \in {CallerId(a) : a \in Callers} |-> Caller(MaxCalls)]
    /\ coll \in [Collectors -> {newCollector(b, s) : b \in BOOLEAN, s \in Scripts}]
    /\ gen = [c \in Collectors |-> 0]
    /\ closes = <<>>
    /\ crashed = FALSE

Threads == DOMAIN th

Next ==
    \/ \E a \in Callers, l \in LogLevels : LogCall(a, l)
    \/ \E t \in Threads : NoteCheck(t)
    \/ \E t \in Threads : DispatchInc(t)
    \/ \E t \in Threads : DispatchLoad(t)
    \/ \E t \in Threads : DispatchNext(t)
    \/ \E t \in Threads : DispatchDone(t)
    \/ \E t \in Threads : SyncSend(t)
    \/ \E t \in Threads : Collect(t)
    \/ \E t \in Threads : CollectOk(t)
    \/ \E t \in Threads : CollectErr(t)
    \/ \E t \in Threads : CollectPanic(t)
    \/ \E t \in Threads : DegradeOn(t)
    \/ \E t \in Threads : RecoveryCollect(t)
    \/ \E t \in Threads : RecoveryOk(t)
    \/ \E t \in Threads : RecoveryErr(t)
    \/ \E t \in Threads : RecoveryPanic(t)
    \/ \E t \in Threads : DegradeOff(t)
    \/ \E t \in Threads : RunReceive(t)
    \/ \E t \in Threads : RunTerminate(t)
    \/ \E t \in Threads : HandleDrops(t)
    \/ \E t \in Threads : CleanupFlush(t)
    \/ \E t \in Threads : CleanupDone(t)
    \/ \E t \in Threads : SyncTerminate(t)
    \/ \E t \in Threads : AsyncTerminateClose(t)
    \/ \E t \in Threads : AsyncTerminateSignal(t)
    \/ \E t \in Threads : AsyncTerminateWait(t)
    \/ \E t \in Threads : Dispose(t)
    \/ CloseCall
    \/ \E t \in Threads : TerminateAsync(t)
    \/ \E t \in Threads : TerminateWorkers(t)
    \/ \E t \in Threads : TerminateAsyncDone(t)
    \/ CloseReturn
    \/ CloseTimeout
    \/ \E c \in Collectors, l \in Thresholds, b \in 0..MaxBuf : Register(c, l, b)
    \/ \E c \in Collectors, l \in Thresholds : SetLevel(c, l)
    \/ \E c \in Collectors : Unblock(c)

Spec == Init /\ [][Next]_vars


(***************************************************************************)
(* The state after the collectors of `setup` (collector -> threshold and   *)
(* buffer size) have been registered by Collect / CollectAsync: the        *)
(* registry holds one entry and one fresh worker for each, and every       *)
(* asynchronous worker's goroutine waits in run.                           *)
(***************************************************************************)
Registered(setup, blocked, scripts, calls) ==
    LET reg == [c \in DOMAIN setup |-> entry(setup[c].threshold, FALSE, <<c, 1>>)]
        async == {c \in DOMAIN setup : setup[c].bufsize # 0} IN
    /\ cfg = config(1, 1, reg)
    /\ mu = NoThread
    /\ sending = 0
    /\ wk = [w \in {<<c, 1>> : c \in DOMAIN setup} |-> newWorker(w[1], setup[w[1]].bufsize)]
    /\ th = [t \in {CallerId(a) : a \in Callers} \cup {WorkerThread(<<c, 1>>) : c \in async} |->
                IF t[1] = "caller" THEN Caller(calls)
                ELSE [Thread("idle", NoEvent) EXCEPT !.w = t[2]]]
    /\ coll = [c \in Collectors |-> newCollector(c \in blocked, scripts[c])]
    /\ gen = [c \in Collectors |-> IF c \in DOMAIN setup THEN 1 ELSE 0]
    /\ closes = <<>>
    /\ crashed = FALSE

Reg(threshold, bufsize) == [threshold |-> threshold, bufsize |-> bufsize]


(***************************************************************************)
(* Delivery with retries: one collector, synchronous or asynchronous, with *)
(* every script; no Close.                                                 *)
(***************************************************************************)
Only(c, x, other) == [d \in Collectors |-> IF d = c THEN x ELSE other]

InitRetry ==
    \E b \in 0..MaxBuf, s \in Scripts :
        Registered([c \in {"c1"} |-> Reg(DEBUG, b)], {}, Only("c1", s, <<>>), MaxCalls)

NextRetry ==
    \/ \E a \in Callers, l \in LogLevels : LogCall(a, l)
    \/ \E t \in Threads : NoteCheck(t)
    \/ \E t \in Threads : DispatchInc(t)
    \/ \E t \in Threads : DispatchLoad(t)
    \/ \E t \in Threads : DispatchNext(t)
    \/ \E t \in Threads : DispatchDone(t)
    \/ \E t \in Threads : SyncSend(t)
    \/ \E t \in Threads : Collect(t)
    \/ \E t \in Threads : CollectOk(t)
    \/ \E t \in Threads : CollectErr(t)
    \/ \E t \in Threads : CollectPanic(t)
    \/ \E t \in Threads : DegradeOn(t)
    \/ \E t \in Threads : RecoveryCollect(t)
    \/ \E t \in Threads : RecoveryOk(t)
    \/ \E t \in Threads : RecoveryErr(t)
    \/ \E t \in Threads : RecoveryPanic(t)
    \/ \E t \in Threads : DegradeOff(t)
    \/ \E t \in Threads : RunReceive(t)
    \/ \E t \in Threads : RunTerminate(t)
    \/ \E t \in Threads : HandleDrops(t)
    \/ \E t \in Threads : CleanupDone(t)
    \/ \E t \in Threads : SyncTerminate(t)
    \/ \E t \in Threads : AsyncTerminateClose(t)
    \/ \E t \in Threads : AsyncTerminateSignal(t)
    \/ \E t \in Threads : AsyncTerminateWait(t)
    \/ \E t \in Threads : Dispose(t)

SpecRetry == InitRetry /\ [][NextRetry]_vars

\* The positions of the Collect calls of collector c that carried event e.
CallsOf(c, e) == {i \in 1..Len(coll[c].hist) : coll[c].hist[i].ev = e}

SetMin(S) == CHOOSE x \in S : \A y \in S : x <= y

\* C8: sendWithRetries calls Collect with the same event at most
\* sendRetries + 1 times and not again after a call that returned nil; when
\* sendEvent goes on to handleDegradation, all sendRetries + 1 calls for the
\* event have failed and the error handed on is the one of the first call.
\* So a collector that fails sendRetries times and then succeeds gets the
\* event once, and no degradation starts for it.
C8_RetryPolicy ==
    /\ \A c \in Collectors : \A i \in 1..Len(coll[c].hist) :
          LET h == coll[c].hist
              calls == CallsOf(c, h[i].ev) IN
          /\ Cardinality(calls) <= sendRetries + 1
          /\ h[i].res = "ok" => \A j \in calls : j <= i
    /\ \A t \in Threads :
          th[t].pc = "deg_on" /\ th[t].ret # "send" =>
              LET c == CollectorOf(th[t].w)
                  h == coll[c].hist
                  calls == CallsOf(c, th[t].ev) IN
              /\ Cardinality(calls) = sendRetries + 1
              /\ \A j \in calls : h[j].res = "err"
              /\ th[t].err = h[SetMin(calls)].err

\* A collector has failed an event sendRetries times and then accepted it.
C8_Witness ==
    \E c \in Collectors :
        LET h == coll[c].hist IN
        /\ Len(h) = sendRetries + 1
        /\ \A i \in 1..sendRetries : h[i].res = "err" /\ h[i].ev = h[sendRetries + 1].ev
        /\ h[sendRetries + 1].res = "ok"
        /\ h[1].ev.kind = "user"
        /\ \A t \in Threads : th[t].pc \notin {"deg_on", "rcall", "rincall", "deg_off"}


(***************************************************************************)
(* asyncWorker.Send on a running worker: the same actions, one             *)
(* asynchronous collector, one more call than the queue and the worker     *)
(* together can hold.                                                      *)
(***************************************************************************)
InitSend ==
    \E b \in 1..MaxBuf, s \in Scripts :
        Registered([c \in {"c1"} |-> Reg(DEBUG, b)], {}, Only("c1", s, <<>>), MaxCalls + 1)

NextSend ==
    \/ \E a \in Callers, l \in LogLevels : LogCall(a, l)
    \/ \E t \in Threads : NoteCheck(t)
    \/ \E t \in Threads : DispatchInc(t)
    \/ \E t \in Threads : DispatchLoad(t)
    \/ \E t \in Threads : DispatchNext(t)
    \/ \E t \in Threads : DispatchDone(t)
    \/ \E t \in Threads : Collect(t)
    \/ \E t \in Threads : CollectOk(t)
    \/ \E t \in Threads : CollectErr(t)
    \/ \E t \in Threads : CollectPanic(t)
    \/ \E t \in Threads : DegradeOn(t)
    \/ \E t \in Threads : RecoveryCollect(t)
    \/ \E t \in Threads : RecoveryOk(t)
    \/ \E t \in Threads : RecoveryErr(t)
    \/ \E t \in Threads : RecoveryPanic(t)
    \/ \E t \in Threads : DegradeOff(t)
    \/ \E t \in Threads : RunReceive(t)
    \/ \E t \in Threads : RunTerminate(t)
    \/ \E t \in Threads : HandleDrops(t)
    \/ \E t \in Threads : CleanupDone(t)
    \/ \E t \in Threads : AsyncTerminateClose(t)
    \/ \E t \in Threads : AsyncTerminateSignal(t)
    \/ \E t \in Threads : AsyncTerminateWait(t)
    \/ \E t \in Threads : Dispose(t)

SpecSend == InitSend /\ [][NextSend]_vars

\* Thread t is inside dispatchEvent, about to call Send on the running
\* asynchronous worker w.
AtSend(t, w) ==
    /\ th[t].pc = "iter"
    /\ w \in th[t].todo
    /\ wk[w].kind = "async"
    /\ ~wk[w].closed

\* The step is t's call of Send on w.
SendStep(t, w) ==
    /\ AtSend(t, w)
    /\ t \in DOMAIN th'
    /\ th'[t].pc = "iter"
    /\ th'[t].todo = th[t].todo \ {w}

QueueBounded ==
    \A w \in DOMAIN wk : wk[w].kind = "async" => Len(wk[w].queue) <= wk[w].bufsize

SendNeverBlocks ==
    \A t \in Threads : \A w \in DOMAIN wk : AtSend(t, w) => ENABLED WorkerSend(t, w)

SendEffect ==
    \A t \in Threads : \A w \in DOMAIN wk :
        SendStep(t, w) =>
            \/ /\ Len(wk[w].queue) < wk[w].bufsize
               /\ wk'[w].queue = Append(wk[w].queue, th[t].ev)
               /\ wk'[w].drops = wk[w].drops
            \/ /\ Len(wk[w].queue) = wk[w].bufsize
               /\ wk'[w].queue = wk[w].queue
               /\ wk'[w].drops = wk[w].drops + 1

\* C7: on a running asynchronous worker, whatever its goroutine is doing,
\* Send is always able to return; it appends the event when the queue holds
\* fewer than bufsize events, and otherwise leaves the queue as it is and
\* adds exactly one to the drop counter; the queue never holds more than
\* bufsize events.
C7_SendNonBlocking == [](QueueBounded /\ SendNeverBlocks) /\ [][SendEffect]_vars

\* Send has dropped an event on a full queue while the worker's goroutine
\* was inside Collect with an earlier event.
C7_Witness ==
    \E w \in DOMAIN wk :
        /\ wk[w].kind = "async"
        /\ Len(wk[w].queue) = wk[w].bufsize
        /\ wk[w].drops = 1
        /\ coll[CollectorOf(w)].hist = <<>>
        /\ WorkerThread(w) \in Threads
        /\ th[WorkerThread(w)].pc = "incall"


(***************************************************************************)
(* Shutdown: one collector, synchronous or asynchronous, possibly blocking *)
(* until unblocked, with log calls, collector failures and panics, and     *)
(* Close.                                                                  *)
(***************************************************************************)
CloseScripts == {Fails(0), Fails(sendRetries), Fails(sendRetries + 1), <<"panic">>}

InitClose ==
    \E b \in 0..MaxBuf, s \in CloseScripts, blocked \in SUBSET {"c1"} :
        Registered([c \in {"c1"} |-> Reg(DEBUG, b)], blocked, Only("c1", s, <<>>), MaxCalls)

NextClose ==
    \/ \E a \in Callers, l \in LogLevels : LogCall(a, l)
    \/ \E t \in Threads : NoteCheck(t)
    \/ \E t \in Threads : DispatchInc(t)
    \/ \E t \in Threads : DispatchLoad(t)
    \/ \E t \in Threads : DispatchNext(t)
    \/ \E t \in Threads : DispatchDone(t)
    \/ \E t \in Threads : SyncSend(t)
    \/ \E t \in Threads : Collect(t)
    \/ \E t \in Threads : CollectOk(t)
    \/ \E t \in Threads : CollectErr(t)
    \/ \E t \in Threads : CollectPanic(t)
    \/ \E t \in Threads : DegradeOn(t)
    \/ \E t \in Threads : RecoveryCollect(t)
    \/ \E t \in Threads : RecoveryOk(t)
    \/ \E t \in Threads : RecoveryErr(t)
    \/ \E t \in Threads : RecoveryPanic(t)
    \/ \E t \in Threads : DegradeOff(t)
    \/ \E t \in Threads : RunReceive(t)
    \/ \E t \in Threads : RunTerminate(t)
    \/ \E t \in Threads : HandleDrops(t)
    \/ \E t \in Threads : CleanupFlush(t)
    \/ \E t \in Threads : CleanupDone(t)
    \/ \E t \in Threads : SyncTerminate(t)
    \/ \E t \in Threads : AsyncTerminateClose(t)
    \/ \E t \in Threads : AsyncTerminateSignal(t)
    \/ \E t \in Threads : AsyncTerminateWait(t)
    \/ \E t \in Threads : Dispose(t)
    \/ CloseCall
    \/ \E t \in Threads : TerminateAsync(t)
    \/ \E t \in Threads : TerminateWorkers(t)
    \/ \E t \in Threads : TerminateAsyncDone(t)
    \/ CloseReturn
    \/ CloseTimeout
    \/ \E c \in Collectors : Unblock(c)

SpecClose == InitClose /\ [][NextClose]_vars


\* Event e has been passed to the Collect of worker w's collector.
Delivered(w, e) ==
    \E i \in 1..Len(coll[CollectorOf(w)].hist) : coll[CollectorOf(w)].hist[i].ev = e

\* Terminate(w) has run to its end: the collector is closed, and an
\* asynchronous worker's goroutine is gone with nothing left in the queue.
Terminated(w) ==
    /\ coll[CollectorOf(w)].closes >= 1
    /\ IF wk[w].kind = "sync" THEN wk[w].terminated
       ELSE wk[w].finished /\ WorkerThread(w) \notin Threads

\* Thread t is inside dispatchEvent or inside a worker's Send with worker w
\* still to be reached or being sent to.
Reaches(t, w) ==
    /\ t[1] \in {"caller", "degraded", "recovered", "recover"}
    /\ th[t].pc \notin {"ready", "check", "inc", "load", "d_lock", "t_start", "t_flag", "t_wait"}
    /\ w \in th[t].todo \/ th[t].w = w

\* C2 (as the specification states it): no log call of a caller ever sends
\* on the queue of an asynchronous worker that Terminate has closed.
C2_NoSendOnClosedQueue ==
    \A t \in Threads : t[1] = "caller" => th[t].pc # "panic_send"

C4_NilOnlyAfterTermination ==
    /\ \A t \in Threads : t[1] = "term" => th[t].flush
    /\ \A k \in 1..Len(closes) :
          /\ closes[k].ret = "nil" => closes[k].ch = "nil"
          /\ closes[k].ch = "nil" =>
                \A w \in closes[k].reg :
                    /\ Terminated(w)
                    /\ wk[w].queue = <<>>
                    /\ \A t \in Threads : ~Reaches(t, w)
          /\ (closes[k].ret = "pending" /\ \E w \in closes[k].reg : ~Terminated(w))
                => ~ENABLED CloseReturn

\* Close has returned the timeout error while a collector of the replaced
\* registry was blocked inside Collect.
C4_Witness ==
    \E k \in 1..Len(closes) :
        /\ closes[k].ret = "timeout"
        /\ \E t \in Threads :
              /\ th[t].pc = "incall"
              /\ th[t].w \in closes[k].reg
              /\ coll[CollectorOf(th[t].w)].blocked

\* C5 (as the specification states it, for collectors that are not
\* blocked): when an event flushed during Close has exhausted its retries,
\* Close is not left waiting for the worker while the worker waits, in
\* setDegraded, for the configuration lock that terminateAsync holds until
\* the worker has terminated.
C5_CloseNotStuckOnDegradation ==
    \A k \in 1..Len(closes) : \A t \in Threads :
        ~ /\ closes[k].ret = "pending"
          /\ mu = CloseId(k)
          /\ th[t].pc = "deg_on"
          /\ th[t].ret = "cleanup"
          /\ th[t].w \in closes[k].reg
          /\ \A c \in Collectors : ~coll[c].blocked


\* C6 (as the specification states it, for collectors that are not
\* blocked): the goroutine that runs dispose, holding the configuration
\* lock inside Terminate, never waits for a worker whose sender is itself
\* waiting for that lock in setDegraded.
C6_DisposeNotStuckOnDegradation ==
    \A t \in Threads : \A u \in Threads :
        ~ /\ t[1] = "recover"
          /\ mu = t
          /\ th[t].pc \in {"t_start", "t_flag", "t_wait"}
          /\ th[u].pc \in {"deg_on", "deg_off"}
          /\ th[u].w = th[t].w
          /\ \A c \in Collectors : ~coll[c].blocked

\* The registry of the published snapshot holds worker w's collector, with
\* w as its worker, flagged degraded.
Degraded(w) ==
    /\ CollectorOf(w) \in DOMAIN cfg.registry
    /\ cfg.registry[CollectorOf(w)].worker = w
    /\ cfg.registry[CollectorOf(w)].degraded

\* C9 (as the specification states it): while the published snapshot flags
\* a registered collector degraded, no caller's event is inside its Collect.
C9_OnlySyntheticWhileDegraded ==
    \A t \in Threads :
        th[t].pc = "incall" /\ th[t].ev.kind = "user" => ~Degraded(th[t].w)

\* C10 (as the specification states it): the "entered a degraded state"
\* notification of a collector is never passed to that collector's own
\* Collect.
C10_NotificationNotToSelf ==
    \A c \in Collectors : \A i \in 1..Len(coll[c].hist) :
        coll[c].hist[i].ev.kind = "degraded" => CollectorOf(coll[c].hist[i].ev.src) # c


(***************************************************************************)
(* Thresholds: healthy collectors are registered (Collect, CollectAsync)   *)
(* and their levels set (SetLevel) between the calls of an audited caller; *)
(* the registry is not changed while a call is in progress.                *)
(***************************************************************************)
InitLevels ==
    /\ cfg = newConfig
    /\ mu = NoThread
    /\ sending = 0
    /\ wk = [w \in {} |-> 0]
    /\ th = [t \in {CallerId(a) : a \in Callers} |-> AuditedCaller(MaxCalls)]
    /\ coll = [c \in Collectors |-> newCollector(FALSE, <<>>)]
    /\ gen = [c \in Collectors |-> 0]
    /\ closes = <<>>
    /\ crashed = FALSE

\* No caller is inside a logging method, and no worker or other goroutine
\* has anything left to do.
Quiet ==
    /\ \A t \in Threads : th[t].pc \in {"ready", "idle"}
    /\ \A w \in DOMAIN wk : wk[w].queue = <<>>

LevelsSet == {OFF, ERROR, DEBUG}

NextLevels ==
    \/ \E a \in Callers, l \in LogLevels : LogCall(a, l)
    \/ \E t \in Threads : NoteCheck(t)
    \/ \E t \in Threads : DispatchInc(t)
    \/ \E t \in Threads : DispatchLoad(t)
    \/ \E t \in Threads : DispatchNext(t)
    \/ \E t \in Threads : DispatchDone(t)
    \/ \E t \in Threads : SyncSend(t)
    \/ \E t \in Threads : Collect(t)
    \/ \E t \in Threads : CollectOk(t)
    \/ \E t \in Threads : DegradeOn(t)
    \/ \E t \in Threads : RecoveryCollect(t)
    \/ \E t \in Threads : RecoveryOk(t)
    \/ \E t \in Threads : DegradeOff(t)
    \/ \E t \in Threads : RunReceive(t)
    \/ \E t \in Threads : HandleDrops(t)
    \/ \E l \in LevelsSet, b \in 0..MaxBuf : Quiet /\ Register("c1", l, b)
    \/ \E l \in LevelsSet : Quiet /\ Register("c2", l, 0)
    \/ \E c \in Collectors, l \in LevelsSet : Quiet /\ SetLevel(c, l)

SpecLevels == InitLevels /\ [][NextLevels]_vars

\* Collector c was registered and not degraded when the call was made, and
\* its entry was the same when dispatchEvent loaded the registry.
Steady(call, c) ==
    /\ ~call.reg[c].degraded
    /\ c \in DOMAIN call.snap
    /\ call.snap[c] = call.reg[c]

\* The i-th recorded call of caller a has returned.
Returned(a, i) == i < Len(th[CallerId(a)].log) \/ th[CallerId(a)].pc = "ready"

\* The goroutine of asynchronous worker w has nothing left to deliver.
WorkerIdle(w) ==
    /\ wk[w].queue = <<>>
    /\ WorkerThread(w) \in Threads
    /\ th[WorkerThread(w)].pc = "idle"

\* C1 (as the specification states it): for every call that has returned
\* and every collector that was registered and not degraded while the call
\* was made, once the collector's worker has nothing left to deliver, Collect
\* has been called with the call's event exactly once if the event's level
\* is within the collector's threshold, and not at all otherwise.
C1_CollectIffWithinThreshold ==
    \A a \in Callers : \A i \in 1..Len(th[CallerId(a)].log) :
        LET call == th[CallerId(a)].log[i] IN
        Returned(a, i) =>
            \A c \in DOMAIN call.reg :
                LET e == call.reg[c]
                    n == Cardinality(CallsOf(c, call.ev)) IN
                (Steady(call, c) /\ (wk[e.worker].kind = "async" => WorkerIdle(e.worker))) =>
                    /\ n <= 1
                    /\ n = 1 <=> call.ev.level <= e.threshold

\* C1 (amended): for every call that has returned and every collector that
\* was registered and not degraded while the call was made, Collect is never
\* called more than once with the call's event; a synchronous collector has
\* been called once if and only if the event's level is within its
\* threshold; an asynchronous collector's worker has been sent the event if
\* and only if the level is within the threshold, and has then either
\* accepted it into its queue, in which case Collect is called with it once
\* by the time the worker has nothing left to deliver, or dropped it because
\* the queue was full, in which case Collect is never called with it.
C1_CollectIffWithinThresholdAndQueued ==
    \A a \in Callers : \A i \in 1..Len(th[CallerId(a)].log) :
        LET call == th[CallerId(a)].log[i] IN
        Returned(a, i) =>
            \A c \in DOMAIN call.reg :
                LET e == call.reg[c]
                    w == e.worker
                    n == Cardinality(CallsOf(c, call.ev)) IN
                Steady(call, c) =>
                    /\ n <= 1
                    /\ wk[w].kind = "sync" => (n = 1 <=> call.ev.level <= e.threshold)
                    /\ wk[w].kind = "async" =>
                          /\ call.ev \in wk[w].accepted \cup wk[w].dropped
                                <=> call.ev.level <= e.threshold
                          /\ call.ev \notin wk[w].accepted \cap wk[w].dropped
                          /\ call.ev \notin wk[w].accepted => n = 0
                          /\ call.ev \in wk[w].accepted /\ WorkerIdle(w) => n = 1

\* Two calls have returned, with SetLevel between them: the first was not
\* collected by a collector whose threshold excluded it, the second was
\* collected once by the same collector after its threshold was changed.
C1_Witness ==
    \E a \in Callers :
        LET log == th[CallerId(a)].log IN
        /\ Len(log) = 2
        /\ th[CallerId(a)].pc = "ready"
        /\ \E c \in DOMAIN log[1].reg \cap DOMAIN log[2].reg :
              /\ log[1].reg[c].threshold < log[1].ev.level
              /\ log[2].reg[c].threshold >= log[2].ev.level
              /\ Cardinality(CallsOf(c, log[1].ev)) = 0
              /\ Cardinality(CallsOf(c, log[2].ev)) = 1


(***************************************************************************)
(* Degradation with a second collector: c1 fails until its retries are     *)
(* used up, once more or not during recovery, and then succeeds; c2 is     *)
(* healthy and synchronous.                                                *)
(***************************************************************************)
InitNotify ==
    \E b \in 0..MaxBuf, k \in {sendRetries + 1, sendRetries + 2}, l \in {ERROR, DEBUG} :
        Registered([c \in Collectors |-> IF c = "c1" THEN Reg(DEBUG, b) ELSE Reg(l, 0)],
                   {}, Only("c1", Fails(k), <<>>), MaxCalls)

NextNotify ==
    \/ \E a \in Callers, l \in LogLevels : LogCall(a, l)
    \/ \E t \in Threads : NoteCheck(t)
    \/ \E t \in Threads : DispatchInc(t)
    \/ \E t \in Threads : DispatchLoad(t)
    \/ \E t \in Threads : DispatchNext(t)
    \/ \E t \in Threads : DispatchDone(t)
    \/ \E t \in Threads : SyncSend(t)
    \/ \E t \in Threads : Collect(t)
    \/ \E t \in Threads : CollectOk(t)
    \/ \E t \in Threads : CollectErr(t)
    \/ \E t \in Threads : DegradeOn(t)
    \/ \E t \in Threads : RecoveryCollect(t)
    \/ \E t \in Threads : RecoveryOk(t)
    \/ \E t \in Threads : RecoveryErr(t)
    \/ \E t \in Threads : DegradeOff(t)
    \/ \E t \in Threads : RunReceive(t)
    \/ \E t \in Threads : HandleDrops(t)

SpecNotify == InitNotify /\ [][NextNotify]_vars


(***************************************************************************)
(* A degradation episode as the collector sees it.                         *)
(***************************************************************************)
\* The degradation episode of worker w that event e belongs to: the value
\* of the drop counter that handleDegradation was called with.
EpisodeOf(e) == IF e.kind = "synthetic" THEN e.drops ELSE e.n

\* The kinds, in order, of the events of episode d of its own worker that
\* collector c has accepted (Collect returned nil).
EpisodeKinds(c, d) ==
    LET own == SelectSeq(coll[c].hist,
                         LAMBDA h : /\ h.res = "ok"
                                    /\ h.ev.kind \in {"synthetic", "degraded", "recovered"}
                                    /\ CollectorOf(h.ev.src) = c
                                    /\ EpisodeOf(h.ev) = d) IN
    [i \in 1..Len(own) |-> own[i].ev.kind]

IsPrefix(s, t) == Len(s) <= Len(t) /\ \A i \in 1..Len(s) : s[i] = t[i]

\* C11 (as the specification states it): of one degradation episode a
\* collector accepts the synthetic ERROR event and then the WARN
\* "recovered" notification, these two and in this order, and a caller's
\* event that has used up its retries is not accepted later.
C11_EpisodeDelivery ==
    \A c \in Collectors :
        /\ \A d \in 1..(MaxDrops + MaxCalls) :
              IsPrefix(EpisodeKinds(c, d), <<"synthetic", "recovered">>)
        /\ \A i \in 1..Len(coll[c].hist) :
              LET h == coll[c].hist IN
              h[i].ev.kind = "user" /\ h[i].res = "ok" =>
                  Cardinality({j \in CallsOf(c, h[i].ev) : h[j].res = "err"}) <= sendRetries


(***************************************************************************)
(* The degraded flag and the recovery loop (handleDegradation,             *)
(* ensureErrorSent).                                                       *)
(***************************************************************************)
\* The flag of collector c goes from true to false in this step.
FlagCleared(c) ==
    /\ c \in DOMAIN cfg.registry /\ cfg.registry[c].degraded
    /\ c \in DOMAIN cfg'.registry /\ ~cfg'.registry[c].degraded

\* Thread t is in the recovery loop of worker w, or between the loop and
\* setDegraded(c, false).
InRecovery(t, w) == th[t].w = w /\ th[t].pc \in {"rcall", "rincall", "deg_off"}

\* The positions in the history of collector c of the synthetic events of
\* episode d of worker w.
Attempts(c, w, d) ==
    {i \in 1..Len(coll[c].hist) :
        LET e == coll[c].hist[i].ev IN
        e.kind = "synthetic" /\ e.src = w /\ e.drops = d}

FlagClearedAfterNil ==
    \A c \in Collectors :
        FlagCleared(c) =>
            \E t \in Threads :
                /\ th[t].pc = "deg_off" /\ CollectorOf(th[t].w) = c
                /\ th'[t].pc # "deg_off"
                /\ \E i \in Attempts(c, th[t].w, th[t].d) :
                      /\ coll[c].hist[i].res = "ok"
                      /\ coll[c].hist[i].ev.n = th[t].ratt

FlagKeptWhileRecovering ==
    \A t \in Threads : \A w \in DOMAIN wk :
        InRecovery(t, w) /\ CollectorOf(w) \in DOMAIN cfg.registry
                         /\ cfg.registry[CollectorOf(w)].worker = w
            => cfg.registry[CollectorOf(w)].degraded

AttemptsCounted ==
    \A c \in Collectors : \A i \in 1..Len(coll[c].hist) :
        LET h == coll[c].hist
            e == h[i].ev
            before == {j \in Attempts(c, e.src, e.drops) : j < i} IN
        e.kind = "synthetic" =>
            /\ e.n = Cardinality(before) + 1
            /\ \A j \in before : h[j].res = "err"

\* C12: the degraded flag of a collector goes from true to false only in
\* handleDegradation's setDegraded(c, false), after a Collect call of that
\* collector with the synthetic event of the episode has returned nil; while
\* the recovery loop runs the flag stays true, whatever the number of failed
\* attempts; and the synthetic events of an episode carry the attempt
\* numbers 1, 2, 3, ... in this order, all but the last one having failed.
C12_RecoveryProtocol ==
    /\ [](FlagKeptWhileRecovering /\ AttemptsCounted)
    /\ [][FlagClearedAfterNil]_vars

\* A collector whose first recovery attempt failed and whose second one
\* succeeded has had its flag cleared.
C12_Witness ==
    \E c \in Collectors : \E i, j \in 1..Len(coll[c].hist) :
        LET h == coll[c].hist IN
        /\ i < j
        /\ h[i].ev.kind = "synthetic" /\ h[i].ev.n = 1 /\ h[i].res = "err"
        /\ h[j].ev.kind = "synthetic" /\ h[j].ev.n = 2 /\ h[j].res = "ok"
        /\ h[i].ev.src = h[j].ev.src /\ h[i].ev.drops = h[j].ev.drops
        /\ c \in DOMAIN cfg.registry /\ ~cfg.registry[c].degraded
        /\ \A t \in Threads : ~InRecovery(t, cfg.registry[c].worker)


(***************************************************************************)
(* Two faulty collectors: c1 uses up the retries of one event and then     *)
(* accepts everything; c2 panics once and then uses up the retries of the  *)
(* next event.                                                             *)
(***************************************************************************)
InitStuck ==
    Registered([c \in Collectors |-> IF c = "c1" THEN Reg(ERROR, 1) ELSE Reg(ERROR, 0)],
               {}, Only("c1", Fails(sendRetries + 1), <<"panic">> \o Fails(sendRetries + 1)),
               1)

NextStuck ==
    \/ \E a \in Callers, l \in LogLevels : LogCall(a, l)
    \/ \E t \in Threads : NoteCheck(t)
    \/ \E t \in Threads : DispatchInc(t)
    \/ \E t \in Threads : DispatchLoad(t)
    \/ \E t \in Threads : DispatchNext(t)
    \/ \E t \in Threads : DispatchDone(t)
    \/ \E t \in Threads : SyncSend(t)
    \/ \E t \in Threads : Collect(t)
    \/ \E t \in Threads : CollectOk(t)
    \/ \E t \in Threads : CollectErr(t)
    \/ \E t \in Threads : CollectPanic(t)
    \/ \E t \in Threads : DegradeOn(t)
    \/ \E t \in Threads : RecoveryCollect(t)
    \/ \E t \in Threads : RecoveryOk(t)
    \/ \E t \in Threads : RecoveryErr(t)
    \/ \E t \in Threads : DegradeOff(t)
    \/ \E t \in Threads : RunReceive(t)
    \/ \E t \in Threads : HandleDrops(t)
    \/ \E t \in Threads : SyncTerminate(t)
    \/ \E t \in Threads : Dispose(t)

SpecStuck == InitStuck /\ [][NextStuck]_vars

\* C13 (as the specification states it): a registered collector that is
\* flagged degraded and whose synthetic event has been accepted is not left
\* waiting for the configuration lock for ever, the lock being held by the
\* dispose of another collector that waits for a worker which itself waits
\* for the lock.
C13_DegradedNotStuck ==
    \A t \in Threads : \A u \in Threads : \A v \in Threads :
        ~ /\ th[t].pc = "deg_off"
          /\ Degraded(th[t].w)
          /\ coll[CollectorOf(th[t].w)].script = <<>>
          /\ u[1] = "recover"
          /\ mu = u
          /\ th[u].pc = "t_start"
          /\ CollectorOf(th[u].w) # CollectorOf(th[t].w)
          /\ th[v].pc = "deg_on"
          /\ th[v].err # errDrops
          /\ th[v].w = th[u].w
          /\ \A c \in Collectors : ~coll[c].blocked


\* C14 (as the specification states it): a log call is never itself held
\* in the recovery loop of a collector (where it would return only once
\* that collector accepts the synthetic event), and no healthy collector
\* the call still has to send to waits behind such a loop.
C14_RecoveryOffLogCall ==
    \A t \in Threads :
        t[1] = "caller" => th[t].pc \notin {"rcall", "rincall"}


(***************************************************************************)
(* A panic of Collect inside sendWithRetries.                              *)
(***************************************************************************)
\* In this step the Collect call that thread t made in sendWithRetries
\* panics.
PanicStep(t) ==
    LET c == CollectorOf(th[t].w) IN
    /\ th[t].pc = "incall"
    /\ Len(coll'[c].hist) = Len(coll[c].hist) + 1
    /\ coll'[c].hist[Len(coll'[c].hist)].res = "panic"

PanicRecovered ==
    \A t \in Threads :
        PanicStep(t) =>
            /\ crashed' = crashed
            /\ t \in DOMAIN th'
            /\ th'[t].pc \in {"iter", "idle", "cleanup"}
            /\ t[1] = "worker" => th'[t].pc \in {"idle", "cleanup"}
            /\ cfg' = cfg
            /\ wk'[th[t].w].drops = wk[th[t].w].drops

NoRetryAfterPanic ==
    \A c \in Collectors : \A i \in 1..Len(coll[c].hist) :
        coll[c].hist[i].res = "panic" =>
            \A j \in CallsOf(c, coll[c].hist[i].ev) : j <= i

NoDegradationForPanic ==
    \A t \in Threads :
        th[t].pc \in {"deg_on", "rcall", "rincall", "deg_off"} /\ th[t].err # errDrops =>
            \A j \in CallsOf(CollectorOf(th[t].w), th[t].ev) :
                coll[CollectorOf(th[t].w)].hist[j].res # "panic"

\* C15: a panic of Collect in sendWithRetries is recovered there: the
\* process goes on, the goroutine that made the call (the log caller of a
\* synchronous worker, the goroutine of an asynchronous one) continues where
\* sendEvent was called from, the event is not passed to Collect again, the
\* drop counter and the degraded flag are left alone and no recovery loop
\* runs for the event.
C15_PanicRecoveredInWorker ==
    /\ [](NoRetryAfterPanic /\ NoDegradationForPanic)
    /\ [][PanicRecovered]_vars

\* Collect has panicked on a caller's event at its second attempt, and the
\* goroutine of the asynchronous worker is back in its loop.
C15_Witness ==
    \E t \in Threads :
        LET h == coll[CollectorOf(th[t].w)].hist IN
        /\ t[1] = "worker" /\ th[t].pc = "idle"
        /\ Len(h) = 2
        /\ h[1].res = "err" /\ h[2].res = "panic"
        /\ h[1].ev = h[2].ev /\ h[2].ev.kind = "user"


\* C16 (as the specification states it): once a Collect call of a collector
\* has panicked, no Collect call of that collector is made any more.
C16_NoCollectAfterPanic ==
    \A c \in Collectors : \A i \in 1..Len(coll[c].hist) :
        coll[c].hist[i].res = "panic" => i = Len(coll[c].hist)


(***************************************************************************)
(* A panicking collector c1 next to a healthy synchronous collector c2     *)
(* (TestSyncWorkerPanic, TestAsyncWorkerPanic): c1 panics once or twice,   *)
(* or panics once and then uses up the retries of the next event.          *)
(***************************************************************************)
PanicScripts == {<<"panic">>, <<"panic", "panic">>, <<"panic">> \o Fails(sendRetries + 1)}

InitPanic ==
    \E b \in 0..MaxBuf, s \in PanicScripts :
        Registered([c \in Collectors |-> IF c = "c1" THEN Reg(ERROR, b) ELSE Reg(ERROR, 0)],
                   {}, Only("c1", s, <<>>), MaxCalls)

NextPanic ==
    \/ \E a \in Callers, l \in LogLevels : LogCall(a, l)
    \/ \E t \in Threads : NoteCheck(t)
    \/ \E t \in Threads : DispatchInc(t)
    \/ \E t \in Threads : DispatchLoad(t)
    \/ \E t \in Threads : DispatchNext(t)
    \/ \E t \in Threads : DispatchDone(t)
    \/ \E t \in Threads : SyncSend(t)
    \/ \E t \in Threads : Collect(t)
    \/ \E t \in Threads : CollectOk(t)
    \/ \E t \in Threads : CollectErr(t)
    \/ \E t \in Threads : CollectPanic(t)
    \/ \E t \in Threads : DegradeOn(t)
    \/ \E t \in Threads : RecoveryCollect(t)
    \/ \E t \in Threads : RecoveryOk(t)
    \/ \E t \in Threads : RecoveryPanic(t)
    \/ \E t \in Threads : DegradeOff(t)
    \/ \E t \in Threads : RunReceive(t)
    \/ \E t \in Threads : RunTerminate(t)
    \/ \E t \in Threads : HandleDrops(t)
    \/ \E t \in Threads : CleanupDone(t)
    \/ \E t \in Threads : SyncTerminate(t)
    \/ \E t \in Threads : AsyncTerminateClose(t)
    \/ \E t \in Threads : AsyncTerminateSignal(t)
    \/ \E t \in Threads : AsyncTerminateWait(t)
    \/ \E t \in Threads : Dispose(t)

SpecPanic == InitPanic /\ [][NextPanic]_vars

\* The positions in the history of collector o of the FATAL notifications
\* about panics of collector c.
PanicNotes(o, c) ==
    {i \in 1..Len(coll[o].hist) :
        coll[o].hist[i].ev.kind = "panic" /\ CollectorOf(coll[o].hist[i].ev.src) = c}

\* C17 (as the specification states it): a collector is passed at most one
\* FATAL notification about the panicking collector, and the panicking
\* collector is passed none about itself.
C17_OnePanicNotification ==
    \A c \in Collectors : \A o \in Collectors :
        Cardinality(PanicNotes(o, c)) <= (IF o = c THEN 0 ELSE 1)


(***************************************************************************)
(* The order of delivery of an asynchronous worker: one collector with a   *)
(* queue of MaxBuf + 1 events, healthy or failing one event beyond the     *)
(* retries, one calling goroutine, and Close (Terminate with flush).       *)
(***************************************************************************)
FifoBuf == MaxBuf + 1

InitFifo ==
    \E s \in {Fails(0), Fails(sendRetries + 1)} :
        Registered([c \in {"c1"} |-> Reg(ERROR, FifoBuf)], {}, Only("c1", s, <<>>),
                   MaxCalls + 1)

NextFifo ==
    \/ \E a \in Callers, l \in LogLevels : LogCall(a, l)
    \/ \E t \in Threads : NoteCheck(t)
    \/ \E t \in Threads : DispatchInc(t)
    \/ \E t \in Threads : DispatchLoad(t)
    \/ \E t \in Threads : DispatchNext(t)
    \/ \E t \in Threads : DispatchDone(t)
    \/ \E t \in Threads : Collect(t)
    \/ \E t \in Threads : CollectOk(t)
    \/ \E t \in Threads : CollectErr(t)
    \/ \E t \in Threads : DegradeOn(t)
    \/ \E t \in Threads : RecoveryCollect(t)
    \/ \E t \in Threads : RecoveryOk(t)
    \/ \E t \in Threads : DegradeOff(t)
    \/ \E t \in Threads : RunReceive(t)
    \/ \E t \in Threads : RunTerminate(t)
    \/ \E t \in Threads : HandleDrops(t)
    \/ \E t \in Threads : CleanupFlush(t)
    \/ \E t \in Threads : CleanupDone(t)
    \/ \E t \in Threads : AsyncTerminateClose(t)
    \/ \E t \in Threads : AsyncTerminateSignal(t)
    \/ \E t \in Threads : AsyncTerminateWait(t)
    \/ CloseCall
    \/ \E t \in Threads : TerminateAsync(t)
    \/ \E t \in Threads : TerminateWorkers(t)
    \/ \E t \in Threads : TerminateAsyncDone(t)
    \/ CloseReturn
    \/ CloseTimeout

SpecFifo == InitFifo /\ [][NextFifo]_vars

\* The events of the calling goroutines in sequence s, in the order of s.
CallerEvents(s) == SelectSeq(s, LAMBDA e : e.kind = "user")

\* The events passed to Collect by worker w so far, in order.
Handed(w) ==
    LET h == coll[CollectorOf(w)].hist IN [i \in 1..Len(h) |-> h[i].ev]

\* A calling goroutine makes its calls one after the other, so that Send is
\* called with its events in the order of their numbers n.
InSendOrder(s) ==
    \A i, j \in 1..Len(s) : i < j /\ s[i].src = s[j].src => s[i].n <= s[j].n

InitFull ==
    Registered([c \in {"c1"} |-> Reg(ERROR, MaxBuf)], {"c1"}, Only("c1", <<>>, <<>>),
               MaxBuf + 1)

NextFull ==
    \/ \E a \in Callers, l \in LogLevels : LogCall(a, l)
    \/ \E t \in Threads : NoteCheck(t)
    \/ \E t \in Threads : DispatchInc(t)
    \/ \E t \in Threads : DispatchLoad(t)
    \/ \E t \in Threads : DispatchNext(t)
    \/ \E t \in Threads : DispatchDone(t)
    \/ \E t \in Threads : Collect(t)
    \/ \E t \in Threads : CollectOk(t)
    \/ \E t \in Threads : DegradeOn(t)
    \/ \E t \in Threads : RecoveryCollect(t)
    \/ \E t \in Threads : RecoveryOk(t)
    \/ \E t \in Threads : DegradeOff(t)
    \/ \E t \in Threads : RunReceive(t)
    \/ \E t \in Threads : HandleDrops(t)
    \/ \E c \in Collectors : Unblock(c)

\* The steps of the goroutines of the asynchronous workers.
WorkerStep ==
    \E t \in Threads :
        /\ t[1] = "worker"
        /\ \/ RunReceive(t) \/ HandleDrops(t) \/ Collect(t) \/ CollectOk(t)
           \/ DegradeOn(t) \/ RecoveryCollect(t) \/ RecoveryOk(t) \/ DegradeOff(t)

SpecFull == InitFull /\ [][NextFull]_vars /\ WF_vars(WorkerStep)

\* The callers' events that Send of worker w has been called with, and those
\* of them that it dropped.
SentTo(w) == {e \in wk[w].accepted \cup wk[w].dropped : e.kind = "user"}
DroppedBy(w) == {e \in wk[w].dropped : e.kind = "user"}

\* The goroutine of worker w is in its select and the queue is empty.
Drawn(w) ==
    /\ WorkerThread(w) \in Threads
    /\ th[WorkerThread(w)].pc = "idle"
    /\ wk[w].queue = <<>>

FullQueueDrops ==
    \A w \in DOMAIN wk :
        /\ wk[w].kind = "async"
        /\ coll[CollectorOf(w)].blocked
        /\ Cardinality(SentTo(w)) = wk[w].bufsize + 1
        => /\ Cardinality(DroppedBy(w)) <= 1
           /\ Cardinality(DroppedBy(w)) = 0 =>
                 /\ Len(wk[w].queue) = wk[w].bufsize
                 /\ th[WorkerThread(w)].pc \in {"hdrops", "call", "incall"}
                 /\ th[WorkerThread(w)].ev.kind = "user"

DrawnDelivered ==
    \A w \in DOMAIN wk :
        wk[w].kind = "async" /\ Drawn(w) =>
            LET c == CollectorOf(w)
                h == coll[c].hist IN
            /\ \A e \in SentTo(w) :
                  Cardinality({i \in CallsOf(c, e) : h[i].res = "ok"})
                      = (IF e \in DroppedBy(w) THEN 0 ELSE 1)
            /\ wk[w].drops > 0 =>
                  \E i \in 1..Len(h) :
                      /\ h[i].res = "ok"
                      /\ h[i].ev.kind = "synthetic"
                      /\ h[i].ev.err = errDrops
                      /\ h[i].ev.drops = wk[w].drops

UnblockedDrawn ==
    \A w \in {<<c, g>> : c \in Collectors, g \in 1..MaxGen} :
        (w \in DOMAIN wk /\ wk[w].kind = "async" /\ ~coll[CollectorOf(w)].blocked)
            ~> (w \in DOMAIN wk /\ Drawn(w))

C20_DropsSurfaced ==
    \A k \in 1..Len(closes) : \A w \in closes[k].reg :
        /\ closes[k].ret = "nil"
        /\ wk[w].kind = "async"
        /\ \A i \in 1..Len(coll[CollectorOf(w)].hist) : coll[CollectorOf(w)].hist[i].res = "ok"
        => wk[w].drops <= wk[w].lastdrops


(***************************************************************************)
(* dispose and the queue of the disposed collector's worker.               *)
(***************************************************************************)
\* The goroutine u started by recoverCollector is inside dispose, in
\* Terminate(false), and has closed the queue of worker w.
DisposeClosed(u, w) ==
    /\ u[1] = "recover"
    /\ mu = u
    /\ th[u].w = w
    /\ th[u].pc \in {"t_flag", "t_wait"}
    /\ wk[w].closed

\* In this step the select of run receives an event from the queue of the
\* worker of thread t.
ReceiveStep(t) ==
    /\ th[t].pc = "idle"
    /\ t \in DOMAIN th'
    /\ th'[t].pc = "hdrops"
    /\ th'[t].ev # NoEvent

\* C21 (as the specification states it): once dispose has closed the queue
\* of the collector's worker, the events that are in it are discarded: the
\* worker receives none of them for delivery.
C21_QueueDiscarded ==
    [][\A t \in Threads : \A u \in Threads :
          DisposeClosed(u, th[t].w) => ~ReceiveStep(t)]_vars


(***************************************************************************)
(* Terminate and the collector's Close.                                    *)
(***************************************************************************)
\* Terminate has returned for worker w.
Ended(w) == IF wk[w].kind = "sync" THEN wk[w].terminated ELSE wk[w].finished

ClosedOnce ==
    /\ \A c \in Collectors : coll[c].closes <= 1
    /\ \A w \in DOMAIN wk : Ended(w) => coll[CollectorOf(w)].closes = 1

NoCollectAfterClose ==
    \A c \in Collectors :
        coll[c].closes >= 1 => coll'[c].hist = coll[c].hist

\* C22: Terminate calls the collector's Close once, for a synchronous and
\* for an asynchronous worker, with or without flush; no Collect call of the
\* collector is made or ends after that Close, and a Send on a synchronous
\* worker that has been terminated returns without a Collect call.
C22_ClosedOnceAfterLastCollect ==
    /\ []ClosedOnce
    /\ [][NoCollectAfterClose]_vars

\* A log call has reached Send on a synchronous worker that dispose has
\* terminated, the collector having been closed once.
C22_Witness ==
    \E t \in Threads :
        /\ th[t].pc = "slock"
        /\ wk[th[t].w].kind = "sync"
        /\ wk[th[t].w].terminated
        /\ coll[CollectorOf(th[t].w)].closes = 1


(***************************************************************************)
(* One goroutine at a time in a collector.                                 *)
(***************************************************************************)
OneCollect == \A c \in Collectors : Busy(c) <= 1

CloseAlone ==
    \A c \in Collectors : coll'[c].closes # coll[c].closes => Busy(c) = 0

\* C23: at no time are two Collect calls of one collector in progress
\* (calls of sendWithRetries and of ensureErrorSent, made by log calls, by
\* cue's own notifications, by the worker's goroutine or by its flush), and
\* the collector's Close is called while none is in progress.
C23_OneAtATime == []OneCollect /\ [][CloseAlone]_vars

\* A goroutine is inside Collect of a synchronous collector while another
\* one waits in Send for the worker's mutex.
C23_Witness ==
    \E t \in Threads : \E u \in Threads :
        /\ t # u
        /\ th[t].pc \in {"incall", "rincall"}
        /\ th[u].pc = "slock"
        /\ th[u].w = th[t].w


(***************************************************************************)
(* The registry operations as the program calls them: a goroutine of the   *)
(* program makes up to lim calls of Collect, CollectAsync, SetLevel and    *)
(* SetFrames, one after the other, with any argument, and keeps the last   *)
(* call it made and whether its collector was registered then (history,    *)
(* for the properties only).                                               *)
(***************************************************************************)
MaxOps == 3

NilCollector == "nil"

ClientId == <<"client", NoWorker, 0>>

Client(calls) == [Thread("ready", NoEvent) EXCEPT !.lim = calls]

Called(t, op, c) ==
    [th EXCEPT ![t].n = @ + 1,
               ![t].log = <<[op |-> op, c |-> c, known |-> c \in DOMAIN cfg.registry]>>]

\* collect (Collect: bufsize = 0, CollectAsync: bufsize > 0): a nil
\* collector returns before the lock is taken, a registered one under it.
\* (CollectCallMut: a faulty variant that replaces the entry of a
\* registered collector.)
CollectCallMut(t, c, threshold, bufsize) ==
    LET w == <<c, gen[c] + 1>>
        done == Called(t, "collect", c) IN
    /\ ~crashed
    /\ t = ClientId
    /\ th[t].pc = "ready"
    /\ th[t].n < th[t].lim
    /\ IF c = NilCollector
       THEN /\ th' = done
            /\ UNCHANGED <<cfg, gen, wk>>
       ELSE /\ mu = NoThread
            /\ cfg' = config(cfg.frames, cfg.errorFrames,
                             RegWith(cfg.registry, c, entry(threshold, FALSE, w)))
            /\ gen' = [gen EXCEPT ![c] = @ + 1]
            /\ wk' = [x \in DOMAIN wk \cup {w} |->
                         IF x = w THEN newWorker(c, bufsize) ELSE wk[x]]
            /\ th' = IF bufsize = 0 THEN done
                     ELSE ThSpawn(done, WorkerThread(w),
                                  [Thread("idle", NoEvent) EXCEPT !.w = w])
    /\ UNCHANGED <<mu, sending, coll, closes, crashed>>

CollectCall(t, c, threshold, bufsize) ==
    LET w == <<c, gen[c] + 1>>
        done == Called(t, "collect", c) IN
    /\ ~crashed
    /\ t = ClientId
    /\ th[t].pc = "ready"
    /\ th[t].n < th[t].lim
    /\ IF c = NilCollector
       THEN /\ th' = done
            /\ UNCHANGED <<cfg, gen, wk>>
       ELSE /\ mu = NoThread
            /\ IF c \in DOMAIN cfg.registry
               THEN /\ th' = done
                    /\ UNCHANGED <<cfg, gen, wk>>
               ELSE /\ cfg' = config(cfg.frames, cfg.errorFrames,
                                     RegWith(cfg.registry, c, entry(threshold, FALSE, w)))
                    /\ gen' = [gen EXCEPT ![c] = @ + 1]
                    /\ wk' = [x \in DOMAIN wk \cup {w} |->
                                 IF x = w THEN newWorker(c, bufsize) ELSE wk[x]]
                    /\ th' = IF bufsize = 0 THEN done
                             ELSE ThSpawn(done, WorkerThread(w),
                                          [Thread("idle", NoEvent) EXCEPT !.w = w])
    /\ UNCHANGED <<mu, sending, coll, closes, crashed>>

\* SetLevel: an unknown collector returns under the lock.
\* (SetLevelCallMut: a faulty variant that clears the degraded flag.)
SetLevelCallMut(t, c, threshold) ==
    /\ ~crashed
    /\ t = ClientId
    /\ th[t].pc = "ready"
    /\ th[t].n < th[t].lim
    /\ mu = NoThread
    /\ cfg' = IF c \in DOMAIN cfg.registry
              THEN config(cfg.frames, cfg.errorFrames,
                          [cfg.registry EXCEPT ![c].threshold = threshold,
                                               ![c].degraded = FALSE])
              ELSE cfg
    /\ th' = Called(t, "SetLevel", c)
    /\ UNCHANGED <<mu, sending, wk, coll, gen, closes, crashed>>

SetLevelCall(t, c, threshold) ==
    /\ ~crashed
    /\ t = ClientId
    /\ th[t].pc = "ready"
    /\ th[t].n < th[t].lim
    /\ mu = NoThread
    /\ cfg' = IF c \in DOMAIN cfg.registry
              THEN config(cfg.frames, cfg.errorFrames,
                          [cfg.registry EXCEPT ![c].threshold = threshold])
              ELSE cfg
    /\ th' = Called(t, "SetLevel", c)
    /\ UNCHANGED <<mu, sending, wk, coll, gen, closes, crashed>>

\* setDegraded, called as the tests of the package call dispose.
SetDegradedCall(t, c, degraded) ==
    /\ ~crashed
    /\ t = ClientId
    /\ th[t].pc = "ready"
    /\ th[t].n < th[t].lim
    /\ mu = NoThread
    /\ cfg' = setDegraded(c, degraded)
    /\ th' = Called(t, "setDegraded", c)
    /\ UNCHANGED <<mu, sending, wk, coll, gen, closes, crashed>>

\* SetFrames: the clone keeps the threshold and the registry.
SetFramesCall(t, frames, errorFrames) ==
    /\ ~crashed
    /\ t = ClientId
    /\ th[t].pc = "ready"
    /\ th[t].n < th[t].lim
    /\ mu = NoThread
    /\ cfg' = [cfg EXCEPT !.frames = frames, !.errorFrames = errorFrames]
    /\ th' = Called(t, "SetFrames", NilCollector)
    /\ UNCHANGED <<mu, sending, wk, coll, gen, closes, crashed>>

(***************************************************************************)
(* The configuration: from the initial configuration the program registers *)
(* c1 and c2, sets levels and frame counts, logs and closes; c1 fails      *)
(* until it is degraded or panics and is disposed of; setDegraded is also  *)
(* called for a collector that is not registered.                          *)
(***************************************************************************)
ConfigScripts == {Fails(sendRetries + 1), <<"panic">>}

LevelsGiven == {OFF, ERROR}

FramesGiven == {0}

ErrorFramesGiven == {2}

InitConfig ==
    /\ cfg = newConfig
    /\ mu = NoThread
    /\ sending = 0
    /\ wk = [w \in {} |-> 0]
    /\ th = [t \in {CallerId(a) : a \in Callers} \cup {ClientId} |->
                IF t = ClientId THEN Client(MaxOps) ELSE Caller(1)]
    /\ \E s \in ConfigScripts : coll = Only("c1", newCollector(FALSE, s), newCollector(FALSE, <<>>))
    /\ gen = [c \in Collectors |-> 0]
    /\ closes = <<>>
    /\ crashed = FALSE

NextConfig ==
    \/ \E a \in Callers : LogCall(a, ERROR)
    \/ \E t \in Threads : NoteCheck(t)
    \/ \E t \in Threads : DispatchInc(t)
    \/ \E t \in Threads : DispatchLoad(t)
    \/ \E t \in Threads : DispatchNext(t)
    \/ \E t \in Threads : DispatchDone(t)
    \/ \E t \in Threads : SyncSend(t)
    \/ \E t \in Threads : Collect(t)
    \/ \E t \in Threads : CollectOk(t)
    \/ \E t \in Threads : CollectErr(t)
    \/ \E t \in Threads : CollectPanic(t)
    \/ \E t \in Threads : DegradeOn(t)
    \/ \E t \in Threads : RecoveryCollect(t)
    \/ \E t \in Threads : RecoveryOk(t)
    \/ \E t \in Threads : DegradeOff(t)
    \/ \E t \in Threads : RunReceive(t)
    \/ \E t \in Threads : RunTerminate(t)
    \/ \E t \in Threads : HandleDrops(t)
    \/ \E t \in Threads : CleanupFlush(t)
    \/ \E t \in Threads : CleanupDone(t)
    \/ \E t \in Threads : SyncTerminate(t)
    \/ \E t \in Threads : AsyncTerminateClose(t)
    \/ \E t \in Threads : AsyncTerminateSignal(t)
    \/ \E t \in Threads : AsyncTerminateWait(t)
    \/ \E t \in Threads : Dispose(t)
    \/ CloseCall
    \/ \E t \in Threads : TerminateAsync(t)
    \/ \E t \in Threads : TerminateWorkers(t)
    \/ \E t \in Threads : TerminateAsyncDone(t)
    \/ CloseReturn
    \/ CloseTimeout
    \/ \E t \in Threads, b \in 0..MaxBuf : CollectCall(t, "c1", ERROR, b)
    \/ \E t \in Threads, c \in {"c2", NilCollector} : CollectCall(t, c, FATAL, 0)
    \/ \E t \in Threads, c \in Collectors, l \in LevelsGiven : SetLevelCall(t, c, l)
    \/ \E t \in Threads, f \in FramesGiven, ef \in ErrorFramesGiven : SetFramesCall(t, f, ef)
    \/ \E t \in Threads, c \in Collectors, d \in BOOLEAN :
          c \notin DOMAIN cfg.registry /\ SetDegradedCall(t, c, d)

SpecConfig == InitConfig /\ [][NextConfig]_vars


\* The thresholds of the entries of a registry that are not degraded.
OpenLevels(reg) == {reg[c].threshold : c \in {x \in DOMAIN reg : ~reg[x].degraded}}

ThresholdIsMax ==
    LET open == OpenLevels(cfg.registry) IN
    IF open = {} THEN cfg.threshold = OFF
    ELSE /\ cfg.threshold \in open
         /\ \A l \in open : l <= cfg.threshold

RejectedMatchesNone ==
    \A l \in FATAL..DEBUG :
        FastReject(l) =>
            \A c \in DOMAIN cfg.registry :
                cfg.registry[c].degraded \/ cfg.registry[c].threshold < l

\* C24: in every published snapshot the global threshold is the greatest
\* threshold of the entries that are not degraded, and OFF when there is no
\* such entry; so a level that logger.send rejects against the snapshot is
\* above the threshold of every entry of the snapshot that is not degraded.
C24_GlobalThresholdIsMax == ThresholdIsMax /\ RejectedMatchesNone

\* Both collectors are registered and SetFrames was called; c1, with the
\* higher threshold, is degraded, the global threshold is that of c2, and
\* the logging call of the notification is about to be rejected although
\* its level is within the threshold of c1.
C24_Witness ==
    /\ DOMAIN cfg.registry = {"c1", "c2"}
    /\ cfg.registry["c1"].degraded
    /\ ~cfg.registry["c2"].degraded
    /\ cfg.threshold = cfg.registry["c2"].threshold
    /\ cfg.threshold < cfg.registry["c1"].threshold
    /\ cfg.frames = 0
    /\ \E t \in Threads :
          /\ th[t].pc = "check"
          /\ FastReject(th[t].ev.level)
          /\ th[t].ev.level <= cfg.registry["c1"].threshold


(***************************************************************************)
(* backoff.  A time.Duration is an int64 count of nanoseconds, kept here   *)
(* as its eight bytes in two's complement, the least significant first:    *)
(* the product of two durations wraps at 2^64 as it does in Go.            *)
(***************************************************************************)
MaxAttempt == 1100

Bytes == 0..7

\* The int64 of a natural number below 2^31.
Int64(n) == [i \in Bytes |-> IF i < 4 THEN (n \div (256 ^ i)) % 256 ELSE 0]

MinInt64 == [i \in Bytes |-> IF i = 7 THEN 128 ELSE 0]
MaxInt64 == [i \in Bytes |-> IF i = 7 THEN 127 ELSE 255]

RECURSIVE Column(_, _, _, _)
Column(a, b, k, i) == IF i > k THEN 0 ELSE a[i] * b[k - i] + Column(a, b, k, i + 1)

RECURSIVE Carry(_, _, _)
Carry(a, b, k) ==
    IF k = 0 THEN 0 ELSE (Column(a, b, k - 1, 0) + Carry(a, b, k - 1)) \div 256

\* a * b on int64: the low 64 bits of the product.
Mul64(a, b) == [k \in Bytes |-> (Column(a, b, k, 0) + Carry(a, b, k)) % 256]

Negative(a) == a[7] >= 128

RECURSIVE Below(_, _, _)
Below(a, b, i) ==
    IF i < 0 THEN FALSE
    ELSE IF a[i] # b[i] THEN a[i] < b[i]
    ELSE Below(a, b, i - 1)

\* a < b on int64.
Less(a, b) == IF Negative(a) # Negative(b) THEN Negative(a) ELSE Below(a, b, 7)

Millisecond == Int64(1000000)
Minute == Mul64(Int64(60000), Millisecond)
maxDelay == Mul64(Int64(5), Minute)

\* math.Pow(2, float64(attempt)) for attempt >= 1: the float64 2^attempt,
\* which is exact up to 2^1023, and +Inf above.
Pow2(attempt) == [inf |-> attempt > 1023, exp |-> attempt]

\* time.Duration(exp), the conversion of a float64 to int64: exact for a
\* power of two below 2^63; above, the result depends on the processor (the
\* smallest int64 on amd64, the greatest on arm64).
Duration(f) ==
    IF f.exp <= 62
    THEN {[i \in Bytes |-> IF i = f.exp \div 8 THEN 2 ^ (f.exp % 8) ELSE 0]}
    ELSE {MinInt64, MaxInt64}

\* backoff: the delays it may return for an attempt.
backoff(attempt) ==
    LET exp == Pow2(attempt) IN
    IF exp.inf THEN {maxDelay}
    ELSE {LET delay == Mul64(Millisecond, x) IN
          IF Less(maxDelay, delay) THEN maxDelay ELSE delay : x \in Duration(exp)}

\* The recovery loop of ensureErrorSent at its sleep: attempt++ and
\* time.Sleep(backoff(attempt)), the delay kept with the goroutine.
SleepId == <<"sleep", NoWorker, 0>>

Sleeper(attempt) == [pc |-> "rsleep", ratt |-> attempt, delay |-> Int64(0)]

BackoffSleep(t) ==
    /\ th[t].pc = "rsleep"
    /\ \E delay \in backoff(th[t].ratt + 1) :
          th' = [th EXCEPT ![t].pc = "rslept", ![t].ratt = @ + 1, ![t].delay = delay]
    /\ UNCHANGED <<cfg, mu, sending, wk, coll, gen, closes, crashed>>

\* A recovery loop that has made any number of attempts below MaxAttempt.
InitBackoff ==
    /\ cfg = newConfig
    /\ mu = NoThread
    /\ sending = 0
    /\ wk = [w \in {} |-> 0]
    /\ \E attempt \in 0..(MaxAttempt - 1) : th = [t \in {SleepId} |-> Sleeper(attempt)]
    /\ coll = [c \in Collectors |-> newCollector(FALSE, <<>>)]
    /\ gen = [c \in Collectors |-> 0]
    /\ closes = <<>>
    /\ crashed = FALSE

NextBackoff == \E t \in Threads : BackoffSleep(t)

SpecBackoff == InitBackoff /\ [][NextBackoff]_vars

\* min(2^attempt milliseconds, 5 minutes): up to 2^30 the product with a
\* millisecond does not wrap, and above it is more than 5 minutes.
CappedExponential(attempt) ==
    IF attempt <= 30 /\ ~Less(maxDelay, Mul64(Millisecond, Int64(2 ^ attempt)))
    THEN Mul64(Millisecond, Int64(2 ^ attempt))
    ELSE maxDelay

\* C25: the delay backoff returns for an attempt >= 1 is min(2^attempt
\* milliseconds, 5 minutes), so it is at least one millisecond and at most
\* five minutes.
C25_BackoffIsCappedExponential ==
    \A t \in Threads :
        th[t].pc = "rslept" =>
            /\ th[t].delay = CappedExponential(th[t].ratt)
            /\ ~Less(th[t].delay, Millisecond)
            /\ ~Less(maxDelay, th[t].delay)


\* terminateAsync sends nil on the result channel of a Close.
ResultSent == \E k \in DOMAIN closes : closes[k].ch # "nil" /\ closes'[k].ch = "nil"

\* A call of Collect, CollectAsync, SetLevel or SetFrames is made.
ClientStep == ClientId \in DOMAIN th /\ ClientId \in DOMAIN th' /\ th'[ClientId].n # th[ClientId].n

\* The configuration is the initial one when the result of Close is sent,
\* and only a call of the program takes it out of the initial state.
InitialAfterClose ==
    /\ ResultSent => cfg' = newConfig
    /\ cfg = newConfig /\ cfg' # cfg => ClientStep

\* No Collect is in progress for a worker of the registry that a Close
\* which returned nil has terminated.
NoCollectByClosed ==
    \A k \in DOMAIN closes :
        closes[k].ret = "nil" =>
            \A t \in Threads :
                th[t].pc \in {"incall", "rincall"} => th[t].w \notin closes[k].reg

\* dispose removes the entry of a collector only on behalf of the worker of
\* that entry, as it does for a collector that is registered for the first
\* time.
DisposedByOwnWorker ==
    \A t \in Threads :
        (th[t].pc = "d_lock" /\ t \in DOMAIN th' /\ th'[t].pc = "t_start") => th'[t].w = th[t].w

\* C26: when Close returns nil the published configuration is the initial
\* one, no Collect is made for the workers it has terminated, and a
\* collector that is registered again is served as one registered for the
\* first time: its entry stays until its own worker has it disposed of.
C26_InitialAfterClose ==
    /\ []NoCollectByClosed
    /\ [][InitialAfterClose /\ DisposedByOwnWorker]_vars


(***************************************************************************)
(* Close one call after the other, with a timeout that does not elapse     *)
(* (TestCloseNoop, TestClose: time.Minute): the program logs, sets the     *)
(* frame counts, registers the healthy synchronous collector c2 or a nil   *)
(* collector, and calls Close up to MaxOps times.  The goroutines of the   *)
(* program are scheduled fairly.                                           *)
(***************************************************************************)
InitNoop ==
    /\ cfg = newConfig
    /\ mu = NoThread
    /\ sending = 0
    /\ wk = [w \in {} |-> 0]
    /\ th = [t \in {CallerId(a) : a \in Callers} \cup {ClientId} |->
                IF t = ClientId THEN Client(MaxOps) ELSE Caller(MaxCalls)]
    /\ coll = [c \in Collectors |-> newCollector(FALSE, <<>>)]
    /\ gen = [c \in Collectors |-> 0]
    /\ closes = <<>>
    /\ crashed = FALSE

NextNoop ==
    \/ \E a \in Callers : LogCall(a, ERROR)
    \/ \E t \in Threads : DispatchInc(t)
    \/ \E t \in Threads : DispatchLoad(t)
    \/ \E t \in Threads : DispatchNext(t)
    \/ \E t \in Threads : DispatchDone(t)
    \/ \E t \in Threads : SyncSend(t)
    \/ \E t \in Threads : Collect(t)
    \/ \E t \in Threads : CollectOk(t)
    \/ CloseCallWithin(MaxOps)
    \/ \E t \in Threads : TerminateAsync(t)
    \/ \E t \in Threads : TerminateWorkers(t)
    \/ \E t \in Threads : SyncTerminate(t)
    \/ \E t \in Threads : TerminateAsyncDone(t)
    \/ CloseReturn
    \/ \E t \in Threads, c \in {"c2", NilCollector} : CollectCall(t, c, ERROR, 0)
    \/ \E t \in Threads, f \in FramesGiven, ef \in ErrorFramesGiven : SetFramesCall(t, f, ef)

\* The steps of the goroutines inside a logging call and inside Close.
GoroutineStep ==
    \/ \E t \in Threads :
          \/ DispatchInc(t) \/ DispatchLoad(t) \/ DispatchNext(t) \/ DispatchDone(t)
          \/ SyncSend(t) \/ Collect(t) \/ CollectOk(t)
          \/ TerminateAsync(t) \/ TerminateWorkers(t) \/ SyncTerminate(t)
          \/ TerminateAsyncDone(t)
    \/ CloseReturn

SpecNoop == InitNoop /\ [][NextNoop]_vars /\ WF_vars(GoroutineStep)


\* Every Close that is called returns nil.
ClosesReturnNil ==
    \A k \in 1..MaxOps : (Len(closes) >= k) ~> (Len(closes) >= k /\ closes[k].ret = "nil")

\* When terminateAsync sends the result of a Close that found the registry
\* empty, the published configuration is the initial one.
NoopLeavesInitial ==
    \A k \in DOMAIN closes :
        (closes[k].ch # "nil" /\ closes'[k].ch = "nil" /\ closes[k].reg = {}) => cfg' = newConfig

\* C27: Close called while the registry is empty and no dispatch is in
\* progress returns nil, however many times it is called in succession, and
\* leaves the initial configuration.
C27_CloseNoop == ClosesReturnNil /\ [][NoopLeavesInitial]_vars

\* The frame counts were set, and MaxOps calls of Close in succession have
\* each found the registry empty and returned nil.
C27_Witness ==
    /\ Len(closes) = MaxOps
    /\ \A k \in DOMAIN closes : closes[k].ret = "nil" /\ closes[k].reg = {}
    /\ ClientId \in DOMAIN th
    /\ th[ClientId].log = <<[op |-> "SetFrames", c |-> NilCollector, known |-> FALSE]>>
    /\ cfg = newConfig


\* terminateWorkers has called Terminate(true) on worker w: the queue is
\* closed, the flush flag sent, and the call waits for the worker to finish.
Terminating(w) ==
    \E u \in Threads :
        /\ u[1] = "term"
        /\ th[u].w = w
        /\ th[u].pc = "t_wait"

\* The recovery loop of a goroutine makes its next attempt after an attempt
\* that failed.
NextAttempt(t) ==
    /\ th[t].pc = "rcall"
    /\ th[t].ratt >= 1
    /\ t \in DOMAIN th'
    /\ th'[t].pc = "rincall"

\* C28: the termination that Close forces on a worker interrupts the
\* recovery loop of that worker: once Terminate has signalled the worker,
\* the loop makes no further attempt after one that failed, so that Close
\* does not wait for the collector to recover.
C28_CloseInterruptsRecovery ==
    [][\A t \in Threads : NextAttempt(t) => ~Terminating(th[t].w)]_vars


\* The program makes the call op on collector c.
CallOf(op, c) ==
    /\ ClientStep
    /\ th'[ClientId].log[1].op = op
    /\ th'[ClientId].log[1].c = c

\* The published snapshot is the same, no worker is created or terminated
\* and no goroutine is started or ended.
NothingChanged ==
    /\ cfg' = cfg
    /\ wk' = wk
    /\ gen' = gen
    /\ coll' = coll
    /\ DOMAIN th' = DOMAIN th

\* C29: Collect and CollectAsync with a nil collector or with a collector
\* that is registered leave the published snapshot as it is, the entry of
\* the collector with its threshold, degraded flag and worker included, and
\* create no worker and no goroutine.
C29_CollectNilOrDuplicate ==
    [][\A c \in Collectors \cup {NilCollector} :
          (CallOf("collect", c) /\ (c = NilCollector \/ c \in DOMAIN cfg.registry))
              => NothingChanged]_vars

\* The last call was Collect with c1, which was registered then; c1 is
\* degraded and still has its first worker.
C29_Witness ==
    /\ ClientId \in DOMAIN th
    /\ th[ClientId].log = <<[op |-> "collect", c |-> "c1", known |-> TRUE]>>
    /\ "c1" \in DOMAIN cfg.registry
    /\ cfg.registry["c1"].degraded
    /\ cfg.registry["c1"].worker = <<"c1", 1>>
    /\ gen["c1"] = 1


\* The goroutine t runs dispose.
DisposeStep(t) == th[t].pc = "d_lock" /\ t \in DOMAIN th' /\ th'[t].pc # "d_lock"

\* Only the threshold of the entry of c and the global threshold, which is
\* recomputed, may differ.
OnlyThresholdOf(c) ==
    /\ DOMAIN cfg'.registry = DOMAIN cfg.registry
    /\ \A x \in DOMAIN cfg.registry \ {c} : cfg'.registry[x] = cfg.registry[x]
    /\ cfg'.registry[c].degraded = cfg.registry[c].degraded
    /\ cfg'.registry[c].worker = cfg.registry[c].worker
    /\ cfg'.frames = cfg.frames
    /\ cfg'.errorFrames = cfg.errorFrames
    /\ ThresholdIsMax'
    /\ wk' = wk
    /\ gen' = gen
    /\ coll' = coll
    /\ DOMAIN th' = DOMAIN th

\* C30: SetLevel, setDegraded and dispose for a collector that is not in
\* the registry leave the published snapshot as it is and terminate no
\* worker; SetLevel for a registered collector changes the threshold of its
\* entry and the global threshold, which is recomputed, and nothing else.
C30_UnknownCollectorNoop ==
    [][/\ \A c \in Collectors :
             /\ (CallOf("SetLevel", c) /\ c \notin DOMAIN cfg.registry) => NothingChanged
             /\ (CallOf("setDegraded", c) /\ c \notin DOMAIN cfg.registry) => NothingChanged
             /\ (CallOf("SetLevel", c) /\ c \in DOMAIN cfg.registry) => OnlyThresholdOf(c)
       /\ \A t \in Threads :
             (DisposeStep(t) /\ CollectorOf(th[t].w) \notin DOMAIN cfg.registry)
                 => /\ cfg' = cfg
                    /\ wk' = wk
                    /\ coll' = coll
                    /\ th'[t].pc # "t_start"]_vars

\* The last call was SetLevel with c1, which was registered then: c1 is
\* degraded, its threshold is no longer the one it was registered with, it
\* has its first worker, and c2 is registered as it was.
C30_Witness ==
    /\ ClientId \in DOMAIN th
    /\ th[ClientId].log = <<[op |-> "SetLevel", c |-> "c1", known |-> TRUE]>>
    /\ DOMAIN cfg.registry = {"c1", "c2"}
    /\ cfg.registry["c1"].degraded
    /\ cfg.registry["c1"].threshold = OFF
    /\ cfg.registry["c1"].worker = <<"c1", 1>>
    /\ cfg.registry["c2"] = entry(FATAL, FALSE, <<"c2", 1>>)


\* The goroutine that made the logging call of a user event.
CallerOf(ev) == <<"caller", ev.src, 0>>

\* A Collect of a synchronous worker with a user event is made by the
\* goroutine of the logging call, inside that call.
SyncCollectInsideCall ==
    \A u \in Threads :
        (/\ th[u].pc \in {"call", "incall"}
         /\ th[u].ev.kind = "user"
         /\ wk[th[u].w].kind = "sync")
            => /\ u = CallerOf(th[u].ev)
               /\ th[u].n = th[u].ev.n

\* A goroutine inside a logging call is never kept from its next step by an
\* asynchronous worker: Send on it can always return (or panic, on a closed
\* queue), and only a synchronous worker has the goroutine wait for w.mu or
\* for Collect.
AsyncNoWait ==
    \A t \in Threads :
        /\ th[t].pc = "inc" => ENABLED DispatchInc(t)
        /\ th[t].pc = "load" => ENABLED DispatchLoad(t)
        /\ th[t].pc = "iter" =>
              /\ th[t].todo = {} => ENABLED DispatchDone(t)
              /\ \A w \in th[t].todo : wk[w].kind = "async" => ENABLED WorkerSend(t, w)
        /\ (t[1] = "caller" /\ th[t].pc \notin {"ready", "inc", "load", "iter", "panic_send"})
              => wk[th[t].w].kind = "sync"

\* C31: a logging call does not return before the Collect calls of the
\* synchronous collectors it matches have returned, retries included: they
\* are made by its own goroutine; a logging call that matches asynchronous
\* collectors only returns without waiting for any Collect.
C31_SyncBlocksAsyncDoesNot == SyncCollectInsideCall /\ AsyncNoWait

\* A logging call has returned while the goroutine of the asynchronous
\* worker is inside the first Collect, with the event of that call, on a
\* collector that blocks.
C31_Witness ==
    \E w \in DOMAIN wk : \E a \in Callers :
        /\ wk[w].kind = "async"
        /\ coll[CollectorOf(w)].blocked
        /\ coll[CollectorOf(w)].hist = <<>>
        /\ WorkerThread(w) \in Threads
        /\ th[WorkerThread(w)].pc = "incall"
        /\ th[WorkerThread(w)].ev = UserEvent(a, 1, th[WorkerThread(w)].ev.level)
        /\ th[CallerId(a)].pc = "ready"
        /\ th[CallerId(a)].n = 1


\* The notifications about episode d of another collector that collector c
\* has accepted, in order.
NotificationsSeen(c, d) ==
    LET seen == SelectSeq(coll[c].hist,
                          LAMBDA h : /\ h.res = "ok"
                                     /\ h.ev.kind \in {"degraded", "recovered"}
                                     /\ CollectorOf(h.ev.src) # c
                                     /\ EpisodeOf(h.ev) = d) IN
    [i \in 1..Len(seen) |-> seen[i].ev.kind]

\* C32: of one degradation episode of a collector, every other collector
\* accepts the ERROR "entered a degraded state" notification once and the
\* WARN "recovered" notification once, the ERROR one first.
C32_DegradedBeforeRecovered ==
    \A c \in Collectors : \A d \in 1..(MaxDrops + MaxCalls) :
        IsPrefix(NotificationsSeen(c, d), <<"degraded", "recovered">>)


(***************************************************************************)
(* The configuration as objects in memory.  atomicConfig.cfg holds the     *)
(* address of a config (cur); a config's registry maps a collector to the  *)
(* address of an entry.  A config built by the k-th allocation has the     *)
(* address k, and the entry allocated for collector c of that config has   *)
(* the address <<k, c>>.  applied is the configuration that the mutations  *)
(* which have published so far yield when they are applied one after the   *)
(* other (history, for the properties only).                               *)
(***************************************************************************)
NoEntries == [e \in {} |-> 0]

\* The memory after init: newConfig() is published.
NewMemory ==
    [configs |-> <<newConfig>>, entries |-> NoEntries, cur |-> 1, applied |-> newConfig]

\* atomicConfig.get
get(m) == m.cur

\* The address of the config allocated last.
Newest(m) == Len(m.configs)

\* entry.clone
cloneEntry(e) == entry(e.threshold, e.degraded, e.worker)

\* The registry of the config at address a as a reader sees it through the
\* entry pointers, and the whole config so.
RegistryAt(m, a) ==
    [c \in DOMAIN m.configs[a].registry |-> m.entries[m.configs[a].registry[c]]]
ConfigAt(m, a) == [m.configs[a] EXCEPT !.registry = RegistryAt(m, a)]

\* config.clone of the published config: a new config with a clone of each
\* entry.
\* (cloneShared: a faulty variant that copies the entry pointers.)
cloneShared(m) == [m EXCEPT !.configs = Append(@, m.configs[get(m)])]
clone(m) ==
    LET old == m.configs[get(m)]
        new == Len(m.configs) + 1
        fresh == {<<new, c>> : c \in DOMAIN old.registry} IN
    [m EXCEPT !.configs =
                  Append(@, [old EXCEPT !.registry =
                                            [c \in DOMAIN old.registry |-> <<new, c>>]]),
              !.entries = [e \in DOMAIN m.entries \cup fresh |->
                              IF e \in fresh
                              THEN cloneEntry(m.entries[old.registry[e[2]]])
                              ELSE m.entries[e]]]

\* new.registry[c] = &entry{...} on the config at address a
PutEntry(m, a, c, e) ==
    [m EXCEPT !.configs[a].registry = RegWith(@, c, <<a, c>>),
              !.entries = RegWith(@, <<a, c>>, e)]

\* delete(new.registry, c)
DeleteEntry(m, a, c) == [m EXCEPT !.configs[a].registry = RegWithout(@, c)]

\* new.updateThreshold()
updateThresholdAt(m, a) ==
    [m EXCEPT !.configs[a].threshold = updateThreshold(RegistryAt(m, a))]

\* A call of collect, SetLevel, SetFrames, setDegraded, dispose or Close
\* with its arguments.
Op(name, c, threshold, degraded, frames) ==
    [name |-> name, c |-> c, threshold |-> threshold, degraded |-> degraded,
     frames |-> frames]
NoOp == Op("", NilCollector, OFF, FALSE, <<1, 1>>)

\* What a call makes of configuration v when nothing else runs meanwhile.
Apply(v, op, w) ==
    CASE op.name = "collect" ->
             IF op.c \in DOMAIN v.registry THEN v
             ELSE config(v.frames, v.errorFrames, RegWith(v.registry, op.c, entry(op.threshold, FALSE, w)))
      [] op.name = "SetLevel" ->
             IF op.c \notin DOMAIN v.registry THEN v
             ELSE config(v.frames, v.errorFrames, [v.registry EXCEPT ![op.c].threshold = op.threshold])
      [] op.name = "SetFrames" -> [v EXCEPT !.frames = op.frames[1], !.errorFrames = op.frames[2]]
      [] op.name = "setDegraded" ->
             IF op.c \notin DOMAIN v.registry THEN v
             ELSE config(v.frames, v.errorFrames, [v.registry EXCEPT ![op.c].degraded = op.degraded])
      [] op.name = "dispose" -> config(v.frames, v.errorFrames, RegWithout(v.registry, op.c))
      [] OTHER -> newConfig

\* atomicConfig.set of the config at address a by a call of op
set(m, a, op, w) == [m EXCEPT !.cur = a, !.applied = Apply(@, op, w)]

\* A goroutine that loads the published config `calls` times at most and
\* keeps the pointer meanwhile; seen is what the config held when it was
\* loaded (history, for the properties only).
Reader(calls) == [pc |-> "ready", at |-> 0, seen |-> newConfig, n |-> 0, lim |-> calls]

\* A goroutine that makes `calls` calls at most of the functions that change
\* the configuration; waited tells whether the lock was held when it made
\* the last (history, for the properties only).
Mutator(calls) ==
    [pc |-> "ready", at |-> 0, op |-> NoOp, waited |-> FALSE, n |-> 0, lim |-> calls]

\* The goroutines of the workers, which call setDegraded and dispose.
KeeperId == <<"keeper", NoWorker, 0>>

Mutators == {ClientId, KeeperId}

\* cfg.get() at the start of send and of dispatchEvent
Load(t) ==
    /\ t \notin Mutators
    /\ th[t].pc = "ready"
    /\ th[t].n < th[t].lim
    /\ th' = [th EXCEPT ![t].pc = "holding", ![t].n = @ + 1,
                        ![t].at = get(cfg), ![t].seen = ConfigAt(cfg, get(cfg))]
    /\ UNCHANGED <<cfg, mu, sending, wk, coll, gen, closes, crashed>>

\* The reader's call returns.
Unload(t) ==
    /\ t \notin Mutators
    /\ th[t].pc = "holding"
    /\ th' = [th EXCEPT ![t].pc = "ready"]
    /\ UNCHANGED <<cfg, mu, sending, wk, coll, gen, closes, crashed>>

\* One of the functions is called and reaches cfg.lock().
Call(t, op) ==
    /\ t \in Mutators
    /\ th[t].pc = "ready"
    /\ th[t].n < th[t].lim
    /\ th' = [th EXCEPT ![t].pc = "lock", ![t].op = op, ![t].n = @ + 1,
                        ![t].waited = (mu # NoThread)]
    /\ UNCHANGED <<cfg, mu, sending, wk, coll, gen, closes, crashed>>

\* atomicConfig.lock
\* (lockMut: a faulty variant that does not wait for the lock.)
lockMut(t) ==
    /\ t \in Mutators
    /\ th[t].pc = "lock"
    /\ mu' = t
    /\ th' = [th EXCEPT ![t].pc = "locked"]
    /\ UNCHANGED <<cfg, sending, wk, coll, gen, closes, crashed>>

lock(t) ==
    /\ t \in Mutators
    /\ th[t].pc = "lock"
    /\ mu = NoThread
    /\ mu' = t
    /\ th' = [th EXCEPT ![t].pc = "locked"]
    /\ UNCHANGED <<cfg, sending, wk, coll, gen, closes, crashed>>

\* The deferred atomicConfig.unlock, and the return.
unlock(t) ==
    /\ t \in Mutators
    /\ th[t].pc = "unlock"
    /\ mu' = NoThread
    /\ th' = [th EXCEPT ![t].pc = "ready"]
    /\ UNCHANGED <<cfg, sending, wk, coll, gen, closes, crashed>>

\* new := cfg.get().clone()
CloneConfig(t) ==
    /\ t \in Mutators
    /\ th[t].pc = "locked"
    /\ th[t].op.name # "Close"
    /\ cfg' = clone(cfg)
    /\ th' = [th EXCEPT ![t].pc = "cloned", ![t].at = Newest(clone(cfg))]
    /\ UNCHANGED <<mu, sending, wk, coll, gen, closes, crashed>>

\* terminateAsync: current := cfg.get()
CurrentConfig(t) ==
    /\ t \in Mutators
    /\ th[t].pc = "locked"
    /\ th[t].op.name = "Close"
    /\ th' = [th EXCEPT ![t].pc = "cloned", ![t].at = get(cfg)]
    /\ UNCHANGED <<cfg, mu, sending, wk, coll, gen, closes, crashed>>

Cloned(t, name) ==
    /\ t \in Mutators
    /\ th[t].pc = "cloned"
    /\ th[t].op.name = name
    /\ th' = [th EXCEPT ![t].pc = "unlock"]

\* syncWorker.Terminate of the workers W, none of which is sending
TerminateAll(W) ==
    /\ wk' = [w \in DOMAIN wk |-> IF w \in W THEN [wk[w] EXCEPT !.terminated = TRUE]
                                  ELSE wk[w]]
    /\ coll' = [c \in DOMAIN coll |->
                   [coll[c] EXCEPT !.closes = @ + Cardinality({w \in W : CollectorOf(w) = c})]]

\* collect with bufsize 0, from the lookup in the clone
StoreCollect(t) ==
    LET a == th[t].at
        c == th[t].op.c
        w == <<c, gen[c] + 1>> IN
    /\ Cloned(t, "collect")
    /\ IF c \in DOMAIN cfg.configs[a].registry
       THEN UNCHANGED <<cfg, gen, wk>>
       ELSE /\ cfg' = set(updateThresholdAt(PutEntry(cfg, a, c, entry(th[t].op.threshold, FALSE, w)), a),
                          a, th[t].op, w)
            /\ gen' = [gen EXCEPT ![c] = @ + 1]
            /\ wk' = RegWith(wk, w, newWorker(c, 0))
    /\ UNCHANGED <<mu, sending, coll, closes, crashed>>

\* SetLevel, from the lookup in the clone
StoreSetLevel(t) ==
    LET a == th[t].at
        c == th[t].op.c
        reg == cfg.configs[a].registry IN
    /\ Cloned(t, "SetLevel")
    /\ IF c \notin DOMAIN reg
       THEN UNCHANGED cfg
       ELSE cfg' = set(updateThresholdAt([cfg EXCEPT !.entries[reg[c]].threshold = th[t].op.threshold], a),
                       a, th[t].op, NoWorker)
    /\ UNCHANGED <<mu, sending, wk, coll, gen, closes, crashed>>

\* SetFrames, after the clone
StoreSetFrames(t) ==
    LET a == th[t].at IN
    /\ Cloned(t, "SetFrames")
    /\ cfg' = set([cfg EXCEPT !.configs[a].frames = th[t].op.frames[1],
                              !.configs[a].errorFrames = th[t].op.frames[2]],
                  a, th[t].op, NoWorker)
    /\ UNCHANGED <<mu, sending, wk, coll, gen, closes, crashed>>

\* setDegraded, from the lookup in the clone
StoreSetDegraded(t) ==
    LET a == th[t].at
        c == th[t].op.c
        reg == cfg.configs[a].registry IN
    /\ Cloned(t, "setDegraded")
    /\ IF c \notin DOMAIN reg
       THEN UNCHANGED cfg
       ELSE cfg' = set(updateThresholdAt([cfg EXCEPT !.entries[reg[c]].degraded = th[t].op.degraded], a),
                       a, th[t].op, NoWorker)
    /\ UNCHANGED <<mu, sending, wk, coll, gen, closes, crashed>>

\* dispose, from the lookup in the clone
StoreDispose(t) ==
    LET a == th[t].at
        c == th[t].op.c
        reg == cfg.configs[a].registry IN
    /\ Cloned(t, "dispose")
    /\ IF c \notin DOMAIN reg
       THEN UNCHANGED <<cfg, wk, coll>>
       ELSE /\ cfg' = set(updateThresholdAt(DeleteEntry(cfg, a, c), a), a, th[t].op, NoWorker)
            /\ TerminateAll({cfg.entries[reg[c]].worker})
    /\ UNCHANGED <<mu, sending, gen, closes, crashed>>

\* terminateAsync: cfg.set(newConfig()) and terminateWorkers(current.registry)
StoreClose(t) ==
    LET current == RegistryAt(cfg, th[t].at)
        m == [cfg EXCEPT !.configs = Append(@, newConfig)] IN
    /\ Cloned(t, "Close")
    /\ cfg' = set(m, Newest(m), th[t].op, NoWorker)
    /\ TerminateAll({current[c].worker : c \in DOMAIN current})
    /\ UNCHANGED <<mu, sending, gen, closes, crashed>>

\* The calls the program makes, and those the workers make.
ClientOps ==
    {Op("collect", c, ERROR, FALSE, <<1, 1>>) : c \in Collectors}
        \cup {Op("SetLevel", c, v, FALSE, <<1, 1>>) :
                 c \in Collectors, v \in {OFF, DEBUG}}
        \cup {Op("SetFrames", NilCollector, OFF, FALSE, <<frames, errorFrames>>) :
                 frames \in FramesGiven, errorFrames \in ErrorFramesGiven}
        \cup {Op("Close", NilCollector, OFF, FALSE, <<1, 1>>)}
KeeperOps ==
    {Op("setDegraded", c, OFF, v, <<1, 1>>) : c \in Collectors, v \in BOOLEAN}
        \cup {Op("dispose", c, OFF, FALSE, <<1, 1>>) : c \in Collectors}

InitMemory ==
    /\ cfg = NewMemory
    /\ mu = NoThread
    /\ sending = 0
    /\ wk = [w \in {} |-> 0]
    /\ th = [t \in Mutators \cup {CallerId(a) : a \in Callers} |->
                IF t = ClientId THEN Mutator(MaxOps)
                ELSE IF t = KeeperId THEN Mutator(MaxDrops)
                ELSE Reader(MaxCalls)]
    /\ coll = [c \in Collectors |-> newCollector(FALSE, <<>>)]
    /\ gen = [c \in Collectors |-> 0]
    /\ closes = <<>>
    /\ crashed = FALSE

NextMemory ==
    \E t \in Threads :
        \/ Load(t)
        \/ Unload(t)
        \/ \E op \in IF t = ClientId THEN ClientOps ELSE KeeperOps : Call(t, op)
        \/ lock(t)
        \/ CloneConfig(t)
        \/ CurrentConfig(t)
        \/ StoreCollect(t)
        \/ StoreSetLevel(t)
        \/ StoreSetFrames(t)
        \/ StoreSetDegraded(t)
        \/ StoreDispose(t)
        \/ StoreClose(t)
        \/ unlock(t)

SpecMemory == InitMemory /\ [][NextMemory]_vars

Readers == {t \in Threads : t \notin Mutators /\ th[t].pc = "holding"}

\* C33: a published config is not modified afterwards: the config a reader
\* holds, seen through its entry pointers, is what it was when the reader
\* loaded it (threshold, frame counts, registered collectors and the
\* threshold, degraded flag and worker of each), whatever was published
\* since, and no entry belongs to two configs.
C33_SnapshotImmutable ==
    /\ \A t \in Readers : ConfigAt(cfg, th[t].at) = th[t].seen
    /\ \A a, b \in 1..Len(cfg.configs) :
          \A c \in DOMAIN cfg.configs[a].registry, d \in DOMAIN cfg.configs[b].registry :
              cfg.configs[a].registry[c] = cfg.configs[b].registry[d] => a = b /\ c = d

\* A reader holds a config with a registered collector while the published
\* one has another threshold and another degraded flag for it.
C33_Witness ==
    \E t \in Readers : \E c \in Collectors :
        LET now == ConfigAt(cfg, get(cfg)) IN
        /\ th[t].at # get(cfg)
        /\ c \in DOMAIN th[t].seen.registry
        /\ c \in DOMAIN now.registry
        /\ now.registry[c].threshold # th[t].seen.registry[c].threshold
        /\ now.registry[c].degraded # th[t].seen.registry[c].degraded

\* C35: the calls that change the configuration run one at a time, each on
\* what the one before published, so the published configuration is what
\* the calls that have published yield when applied one after the other in
\* the order of their cfg.set: no update is lost.
C35_NoLostUpdate ==
    /\ ConfigAt(cfg, get(cfg)) = cfg.applied
    /\ Cardinality({t \in Mutators : th[t].pc \in {"locked", "cloned", "unlock"}}) <= 1

\* SetLevel(DEBUG, c) was called while a setDegraded(c, true) held the lock;
\* both have returned and the published entry of c has the threshold DEBUG
\* and the degraded flag.
C35_Witness ==
    \E c \in Collectors :
        /\ th[ClientId].pc = "ready"
        /\ th[ClientId].op = Op("SetLevel", c, DEBUG, FALSE, <<1, 1>>)
        /\ th[ClientId].waited
        /\ th[KeeperId].pc = "ready"
        /\ th[KeeperId].op = Op("setDegraded", c, OFF, TRUE, <<1, 1>>)
        /\ c \in DOMAIN RegistryAt(cfg, get(cfg))
        /\ RegistryAt(cfg, get(cfg))[c].threshold = DEBUG
        /\ RegistryAt(cfg, get(cfg))[c].degraded

\* The goroutines inside dispatchEvent: past the increment of `sending` and
\* not yet past the deferred decrement.
Dispatching ==
    {t \in Threads :
        /\ t[1] \in {"caller", "degraded", "recovered", "recover"}
        /\ th[t].pc \notin {"ready", "check", "inc", "d_lock", "t_start", "t_flag",
                            "t_wait", "panic_close"}}

\* While the program runs, `sending` is the number of dispatchEvent
\* executions in progress: each has added 1 before it loaded the snapshot
\* and subtracts 1 when its loop is over.
SendingCounts == ~crashed => sending = Cardinality(Dispatching)

\* A goroutine of terminateWorkers goes into Terminate.
CloseTerminates(t) ==
    /\ t[1] = "term"
    /\ th[t].pc = "t_start"
    /\ t \in DOMAIN th' => th'[t].pc # "t_start"

\* C34 (as the specification states it): `sending` is the number of
\* dispatchEvent executions in progress, and Close calls Terminate on a
\* worker only while `sending` is 0.
C34_NoTerminateWhileSending ==
    /\ []SendingCounts
    /\ [][\A t \in Threads : CloseTerminates(t) => sending = 0]_vars

\* C34 (amended): `sending` is the number of dispatchEvent executions in
\* progress; terminateWorkers starts the goroutines that call Terminate
\* only when it has read `sending` as 0; and a dispatch that is in progress
\* while one of them has yet to return from Terminate has loaded the
\* snapshot that Close published, so it sends to no worker that Close
\* terminates.
C34_TerminateAfterSendingZero ==
    /\ []SendingCounts
    /\ [][\A t \in Threads : (th[t].pc = "c_wait" /\ t \in DOMAIN th' /\ th'[t].pc = "c_wg")
                               => sending = 0]_vars
    /\ [](\A t \in Threads : t[1] = "term" =>
             \A u \in Dispatching : th[t].w \notin th[u].todo /\ th[u].w # th[t].w)

\* A goroutine of terminateWorkers has closed the queue of a worker and is
\* inside Terminate while a dispatch is in progress.
C34_Witness ==
    \E t \in Threads :
        /\ t[1] = "term"
        /\ th[t].pc = "t_wait"
        /\ sending = 1
        /\ \E u \in Dispatching : u[1] = "caller" /\ th[u].pc = "iter"


AsyncWorkers == {w \in DOMAIN wk : wk[w].kind = "async"}

\* The events for which every attempt of worker w's sendWithRetries has
\* returned an error.
ExhaustedBy(w) ==
    LET c == CollectorOf(w)
        h == coll[c].hist IN
    {e \in {h[i].ev : i \in 1..Len(h)} :
        /\ e.kind # "synthetic"
        /\ Cardinality({i \in CallsOf(c, e) : h[i].res = "err"}) = sendRetries + 1}

\* The counters of each asynchronous worker: the drops already reported are
\* not more than the drops counted; no event was both enqueued and dropped;
\* and the drops counted are those of Send and one for each event whose
\* attempts all failed.
DropsAccount ==
    \A w \in AsyncWorkers :
        /\ wk[w].lastdrops <= wk[w].drops
        /\ wk[w].accepted \cap wk[w].dropped = {}
        /\ wk[w].drops = Cardinality(wk[w].dropped) + Cardinality(ExhaustedBy(w))

\* A call of Send on worker w returns.
SendReturns(t, w) ==
    /\ th[t].pc = "iter"
    /\ w \in th[t].todo
    /\ wk[w].kind = "async"
    /\ t \in DOMAIN th'
    /\ th'[t].pc = "iter"
    /\ th'[t].todo = th[t].todo \ {w}

\* The call has counted once: the event is new to the worker and has been
\* either enqueued or dropped, with 1 added to the drop counter.
CountedOnce(t, w) ==
    /\ th[t].ev \notin wk[w].accepted \cup wk[w].dropped
    /\ \/ /\ wk'[w].accepted = wk[w].accepted \cup {th[t].ev}
          /\ wk'[w].queue = Append(wk[w].queue, th[t].ev)
          /\ wk'[w].dropped = wk[w].dropped
          /\ wk'[w].drops = wk[w].drops
       \/ /\ wk'[w].dropped = wk[w].dropped \cup {th[t].ev}
          /\ wk'[w].queue = wk[w].queue
          /\ wk'[w].accepted = wk[w].accepted
          /\ wk'[w].drops = wk[w].drops + 1

\* C36: for every asynchronous worker, the drop counter never decreases,
\* lastdrops never exceeds it, every Send call that returns has either
\* enqueued its event or counted one drop (so the calls are as many as the
\* events enqueued plus those dropped by Send), and the drop counter is the
\* number of events dropped by Send plus the number of events that
\* exhausted their retries.
C36_DropAccounting ==
    /\ []DropsAccount
    /\ [][\A w \in AsyncWorkers :
             /\ wk'[w].drops >= wk[w].drops
             /\ \A t \in Threads : SendReturns(t, w) => CountedOnce(t, w)]_vars

\* A worker has counted two drops, one in Send on a full queue and one for
\* an event whose attempts all failed.
C36_Witness ==
    \E w \in AsyncWorkers :
        /\ wk[w].drops = 2
        /\ Cardinality(wk[w].dropped) = 1
        /\ Cardinality(ExhaustedBy(w)) = 1


\* The goroutines that have called Terminate on worker w and not returned.
InTerminate(w) ==
    {t \in Threads : th[t].pc \in {"t_start", "t_flag", "t_wait"} /\ th[t].w = w}

\* A call of Terminate on worker w has taken effect: the synchronous worker
\* is marked terminated, the queue of the asynchronous worker is closed.
TerminateBegun(w) == IF wk[w].kind = "sync" THEN wk[w].terminated ELSE wk[w].closed

\* C37: Terminate is called at most once on a worker, by Close or by
\* dispose: no two goroutines are inside Terminate of the same worker, a
\* goroutine that enters Terminate finds the worker not terminated before,
\* and no close of an already closed queue panics.
C37_TerminateAtMostOnce ==
    /\ \A w \in DOMAIN wk :
          /\ Cardinality(InTerminate(w)) <= 1
          /\ \A t \in InTerminate(w) : th[t].pc = "t_start" => ~TerminateBegun(w)
    /\ \A t \in Threads : th[t].pc # "panic_close"

\* Close has returned nil without terminating the worker of c1, which the
\* dispose that followed a panic had removed from the registry and
\* terminated.
C37_Witness ==
    \E k \in 1..Len(closes) : \E w \in DOMAIN wk :
        /\ closes[k].ret = "nil"
        /\ w \notin closes[k].reg
        /\ TerminateBegun(w)
        /\ coll[CollectorOf(w)].closes = 1
        /\ \E i \in 1..Len(coll[CollectorOf(w)].hist) : coll[CollectorOf(w)].hist[i].res = "panic"

====
